---- MODULE Spec2Model ----
(***************************************************************************)
(* Verification model of the architecture pipeline of codeviz:             *)
(*   - ArchitectureAnalysisService.generateInventory (scan, per-file       *)
(*     analysis in batches, dependency aggregation),                       *)
(*   - ArchitectureClusteringService.clusterArchitecture (retry loop,      *)
(*     schema validation, cross-reference validation, C4 enrichment),      *)
(*   - TraceComponentExecutionToolHandler.execute (execution traces).      *)
(* Text is modelled by TLA+ strings and built with \o exactly where the    *)
(* code concatenates; arrays are sequences; a JavaScript Set is a          *)
(* duplicate-free sequence in insertion order.                             *)
(***************************************************************************)
EXTENDS Integers, Sequences, FiniteSets, TLC

VARIABLES
    inventory,    \* clusterArchitecture: the RepoInventory argument
    userHint,     \* clusterArchitecture: the userHint argument ("" when absent)
    pc,           \* clusterArchitecture: position of the call
    attempts,     \* clusterArchitecture: local `attempts`
    lastError,    \* clusterArchitecture: local `lastError`, a list of text segments
    prompts,      \* every prompt handed to api.createMessage, in order
    errorLog,     \* every errorMsg caught by the catch block, in order
    response,     \* the collaborator's answer consumed by the latest attempt
    result,       \* the ClusterGraph returned (<<>> none, <<g>> returned)
    thrown        \* the message of the Error thrown to the caller ("" none)

clusterVars == <<inventory, userHint, pc, attempts, lastError, prompts, errorLog,
                 response, result, thrown>>

VARIABLES
    diagrams,     \* stored cluster graphs, by id (architecture/clusters/{id}.json)
    traces,       \* stored execution traces, by id (execution-traces/{id}.json)
    tracePc,      \* trace_component_execution: position of the call
    request,      \* trace_component_execution: the parameters of the tool call
    reply,        \* trace_component_execution: the ToolResponse
    consecutiveMistakeCount  \* config.taskState.consecutiveMistakeCount

traceVars == <<diagrams, traces, tracePc, request, reply, consecutiveMistakeCount>>

VARIABLES
    disk,            \* the workspace on disk: its files in the order globby lists them
    scanOptions,     \* generateInventory: the ScanOptions argument
    progressCallback,\* generateInventory: whether a progressCallback was passed
    invPc,           \* generateInventory: position of the call
    scannedFiles,    \* generateInventory: local `files`, the scanned paths
    cursor,          \* generateInventory: loop variable `i` of the batch loop
    fileRecords,     \* generateInventory: local `fileRecords`
    allDependencies, \* generateInventory: local `allDependencies`, the raw edges
    inFlight,        \* indices in `files` of the analyzeFile calls started, not settled
    settled,         \* indices in `files` of the analyzeFile calls that settled
    progress,        \* every (current, total) handed to progressCallback, in order
    analysis,        \* the RepoInventory returned (<<>> none, <<inv>> returned)
    invThrown,       \* the message of the Error thrown to the caller ("" none)
    abandoned        \* the caller gave up on the call (<<>> no, <<invPc, i>> when it did)

inventoryVars == <<disk, scanOptions, progressCallback, invPc, scannedFiles, cursor,
                   fileRecords, allDependencies, inFlight, settled, progress, analysis,
                   invThrown, abandoned>>

VARIABLES
    rawEdges,        \* aggregateDependencies: the raw edges of a workspace
    reordered,       \* the same raw edges in the order of another scan
    edgesOnce,       \* aggregateDependencies(rawEdges) (<<>> none, <<edges>> returned)
    edgesAgain,      \* aggregateDependencies(reordered) (<<>> none, <<edges>> returned)
    aggPc            \* position: "invoked", "once", "twice"

aggregateVars == <<rawEdges, reordered, edgesOnce, edgesAgain, aggPc>>

VARIABLES
    workspaceRev,    \* the revision of the workspace's files on disk
    cacheDoc,        \* the inventory cache document (<<>> absent, <<doc>> present)
    invalidated,     \* the cache was invalidated and not saved since
    genPc,           \* generate_architecture_diagram: position of the run
    useCache,        \* block.params.use_cache of the run ("" when not given)
    run,             \* what the run did so far
    runs,            \* number of runs started
    diagramLog,      \* the inventories behind the graphs handed to saveClusterGraph
    genReply         \* the ToolResponse of the run ("" none yet)

generateVars == <<workspaceRev, cacheDoc, invalidated, genPc, useCache, run, runs,
                  diagramLog, genReply>>

VARIABLES
    traceDir,        \* the execution-traces directory on disk
    diagramDir,      \* the diagrams directory on disk
    persisted,       \* every document file with the content it was first stored with
    storeCall,       \* the storage operation called last and its argument
    storeResult,     \* what that operation returned or threw
    saves            \* number of save calls so far

storeVars == <<traceDir, diagramDir, persisted, storeCall, storeResult, saves>>

VARIABLES
    detFile,         \* the FileRecord handed to detectComponentType
    detEdge,         \* the endpoint clusters and topDependencies handed to the edge rules
    detected         \* what the detection rules returned ("" not called yet)

detectVars == <<detFile, detEdge, detected>>

VARIABLES
    viewMode,        \* ArchitectureView: "home", "diagram" or "trace"
    selectedDiagramId, \* ArchitectureView: "" is null
    selectedTraceId, \* ArchitectureView: "" is null
    executionTrace,  \* ArchitectureView: the loaded trace (<<>> null, <<n>> a trace of n steps)
    graphLoaded,     \* ArchitectureView: clusterGraph and inventory are set
    loading,         \* ArchitectureView: a load is under way
    loadError,       \* ArchitectureView: `error` is set
    currentStepIndex,\* ArchitectureView: `currentStep`, the index of the step shown
    isPlaying,       \* ArchitectureView: auto-play is on
    screen,          \* what the last render showed and put into its event handlers
    timer,           \* the auto-play interval of the last effect (<<>> none, <<n>> running)
    advances         \* auto-play advances since auto-play was last switched on

playbackVars == <<viewMode, selectedDiagramId, selectedTraceId, executionTrace, graphLoaded,
                  loading, loadError, currentStepIndex, isPlaying, screen, timer, advances>>

vars == <<clusterVars, traceVars, inventoryVars, aggregateVars, generateVars, storeVars,
          detectVars, playbackVars>>

\* what an operation leaves alone: the state of the other operations
outsideCluster ==
    <<traceVars, inventoryVars, aggregateVars, generateVars,
      storeVars, detectVars, playbackVars>>
outsideTrace ==
    <<clusterVars, inventoryVars, aggregateVars, generateVars,
      storeVars, detectVars, playbackVars>>
outsideInventory ==
    <<clusterVars, traceVars, aggregateVars, generateVars,
      storeVars, detectVars, playbackVars>>
outsideAggregate ==
    <<clusterVars, traceVars, inventoryVars, generateVars,
      storeVars, detectVars, playbackVars>>
outsideGenerate ==
    <<clusterVars, traceVars, inventoryVars, aggregateVars,
      storeVars, detectVars, playbackVars>>
outsideStore ==
    <<clusterVars, traceVars, inventoryVars, aggregateVars,
      generateVars, detectVars, playbackVars>>
outsideDetect ==
    <<clusterVars, traceVars, inventoryVars, aggregateVars,
      generateVars, storeVars, playbackVars>>
outsidePlayback ==
    <<clusterVars, traceVars, inventoryVars, aggregateVars,
      generateVars, storeVars, detectVars>>

(***************************************************************************)
(* Program constants.                                                      *)
(***************************************************************************)
maxAttemptsPlusOne == 3 + 1
maxAttempts == 3
MinClusters == 5
MaxClusters == 12

(***************************************************************************)
(* Bounds of the model.                                                    *)
(***************************************************************************)
MaxClock == 2

(***************************************************************************)
(* Generic helpers.                                                        *)
(***************************************************************************)
Range(s) == {s[i] : i \in 1..Len(s)}

Last(s) == s[Len(s)]

\* keeps the last occurrence of each element instead of the first
RECURSIVE DedupKeepLast(_)
DedupKeepLast(arr) ==
    IF Len(arr) = 0 THEN <<>>
    ELSE LET rest == DedupKeepLast(Tail(arr))
         IN  IF Head(arr) \in Range(rest) THEN rest ELSE <<Head(arr)>> \o rest

\* Array.from(new Set(arr)): the distinct elements in order of first occurrence
RECURSIVE Dedup(_)
Dedup(arr) ==
    IF Len(arr) = 0 THEN <<>>
    ELSE LET init == Dedup(SubSeq(arr, 1, Len(arr) - 1))
         IN  IF Last(arr) \in Range(init) THEN init ELSE Append(init, Last(arr))

\* Array.prototype.join(sep) on an array of strings
RECURSIVE Join(_, _)
Join(strs, sep) ==
    IF Len(strs) = 0 THEN ""
    ELSE IF Len(strs) = 1 THEN strs[1]
    ELSE strs[1] \o sep \o Join(Tail(strs), sep)

\* concatenation of a sequence of sequences (flatMap / nested for loops)
RECURSIVE Flatten(_)
Flatten(ss) == IF Len(ss) = 0 THEN <<>> ELSE Head(ss) \o Flatten(Tail(ss))

\* decimal text of the array indices that occur in Zod issue paths
IndexText == <<"0", "1", "2", "3", "4", "5", "6", "7", "8", "9", "10", "11", "12", "13", "14">>


(***************************************************************************)
(* Text of identifiers.  A cluster id is a string; its spelling (one       *)
(* character per element) is what the id pattern /^[a-z0-9-]+$/ reads.     *)
(***************************************************************************)
RECURSIVE Text(_)
Text(chars) == IF Len(chars) = 0 THEN "" ELSE Head(chars) \o Text(Tail(chars))

IdLetters == <<"a", "b", "c", "d", "e", "f", "g", "h", "i", "j", "k", "l", "m", "n">>

\* the character class [a-z0-9-]
LowerAlnumHyphen ==
    {"a", "b", "c", "d", "e", "f", "g", "h", "i", "j", "k", "l", "m", "n", "o", "p", "q",
     "r", "s", "t", "u", "v", "w", "x", "y", "z",
     "0", "1", "2", "3", "4", "5", "6", "7", "8", "9", "-"}

IdSpelling(i) == <<"c", "-", IdLetters[i]>>
UpperCaseSpelling == <<"C", "-", "a">>
UnknownSpelling == <<"z", "z">>

\* the spellings of every id text that occurs in the model
IdSpellings ==
    {IdSpelling(i) : i \in 1..Len(IdLetters)} \cup {UpperCaseSpelling, UnknownSpelling, <<>>}

ClusterId(i) == Text(IdSpelling(i))
UpperCaseId == Text(UpperCaseSpelling)
UnknownId == Text(UnknownSpelling)

\* the id texts whose spelling matches /^[a-z0-9-]+$/
PatternIds ==
    {Text(cs) : cs \in {sp \in IdSpellings :
                            /\ Len(sp) >= 1
                            /\ \A k \in 1..Len(sp) : sp[k] \in LowerAlnumHyphen}}

\* /^[a-z0-9-]+$/.test(id)
MatchesIdPattern(id) == id \in PatternIds

(***************************************************************************)
(* Inputs of clusterArchitecture: inventories.                             *)
(***************************************************************************)
File(path, loc, lang, exports, imports) ==
    [path |-> path, linesOfCode |-> loc, language |-> lang,
     exports |-> exports, imports |-> imports]

Import(source, isTypeOnly) == [source |-> source, isTypeOnly |-> isTypeOnly]

Export(name, kind) == [name |-> name, kind |-> kind]

ControllerFile ==
    File("src/controllers/user.controller.ts", 40, "typescript",
         <<Export("UserController", "class")>>,
         <<Import("express", FALSE), Import("../services/user.service", FALSE)>>)

ServiceFile ==
    File("src/services/user.service.ts", 60, "typescript",
         <<Export("UserService", "class")>>,
         <<Import("../db/user.repository", FALSE), Import("../types", TRUE)>>)

RepositoryFile ==
    File("src/db/user.repository.ts", 30, "typescript",
         <<Export("UserRepository", "class")>>,
         <<Import("@prisma/client", FALSE)>>)

GhostPath == "src/ghost.ts"

\* fileRecords.reduce((sum, f) => sum + f.linesOfCode, 0)
RECURSIVE TotalLOC(_)
TotalLOC(files) ==
    IF Len(files) = 0 THEN 0 ELSE Head(files).linesOfCode + TotalLOC(Tail(files))

Inventory(files, deps, ts, root) ==
    [files |-> files,
     dependencies |-> deps,
     metadata |-> [timestamp |-> ts, workspaceRoot |-> root, fileCount |-> Len(files),
                   totalLOC |-> TotalLOC(files)]]

Dep(from, to, count, types) ==
    [from |-> from, to |-> to, count |-> count, importedTypes |-> types]

Inventories ==
    {Inventory(<<ControllerFile, ServiceFile, RepositoryFile>>,
               <<Dep(ControllerFile.path, ServiceFile.path, 1, <<"UserService">>),
                 Dep(ServiceFile.path, RepositoryFile.path, 1, <<"UserRepository">>),
                 Dep(ServiceFile.path, "src/types.ts", 1, <<"type">>)>>,
               1, "/ws"),
     Inventory(<<ControllerFile, ServiceFile>>,
               <<Dep(ControllerFile.path, ServiceFile.path, 1, <<"UserService">>)>>,
               2, "/ws")}

UserHints == {"", "group by feature"}

InventoryPaths(inv) == {inv.files[i].path : i \in 1..Len(inv.files)}

(***************************************************************************)
(* Inputs of clusterArchitecture: what the collaborator may answer.        *)
(* An answer either makes the stream throw, holds no JSON object, holds    *)
(* text that JSON.parse rejects, or parses to an object.  A parsed object  *)
(* lists the keys it has; a key it lacks is read as undefined.             *)
(***************************************************************************)
TechnologyStack(language, framework, libraries, databases, messaging) ==
    [language |-> language, framework |-> framework, libraries |-> libraries,
     databases |-> databases, messaging |-> messaging]

\* no `technology` key; "" and <<>> stand for keys a TechnologyStack lacks
NoTechnology == TechnologyStack("", "", <<>>, <<>>, <<>>)

Cluster(id, files, keyFiles, componentType) ==
    [id |-> id, files |-> files, keyFiles |-> keyFiles, componentType |-> componentType,
     technology |-> NoTechnology]

TopDep(from, to, count) == [from |-> from, to |-> to, count |-> count]

Edge(id, source, target, topDependencies, relationshipType, protocol, description) ==
    [id |-> id, source |-> source, target |-> target, topDependencies |-> topDependencies,
     relationshipType |-> relationshipType, protocol |-> protocol,
     description |-> description]

GraphData(keys, clusters, clusterEdges) ==
    [keys |-> keys, clusters |-> clusters, clusterEdges |-> clusterEdges]

AllKeys == {"clusters", "clusterEdges", "filteringDefaults"}

Defects ==
    {"ghostFile", "strayKeyFile", "upperCaseId", "duplicateId", "noFiles",
     "unknownSource", "unknownTarget", "ghostTopDependency", "parallelEdge",
     "noClusters", "noClusterEdges", "noFilteringDefaults"}

\* answers carry at most one defect, in a graph of the smallest legal size
DefectSets ==
    {{}} \cup {{d} : d \in Defects}
    \cup {{"ghostFile", "unknownSource"}, {"noClusterEdges", "noFilteringDefaults"}}

\* sizes of defect-free answers around both ends of the legal range
ClusterCounts == {MinClusters - 1, MaxClusters, MaxClusters + 1}

PathAt(inv, i) == inv.files[((i - 1) % Len(inv.files)) + 1].path

\* a technology stack the collaborator states for a cluster
SuppliedTechnology == TechnologyStack("Go", "Gin", <<>>, <<>>, <<>>)

\* the i-th cluster of an answer about inventory inv with the defects ds
AnswerCluster(inv, i, ds) ==
    LET id == IF i = 1 /\ "upperCaseId" \in ds THEN UpperCaseId
              ELSE IF i = 4 /\ "duplicateId" \in ds THEN ClusterId(1)
              ELSE ClusterId(i)
        files == IF i = 1 /\ "noFiles" \in ds THEN <<>>
                 ELSE IF i = 1 /\ "ghostFile" \in ds THEN <<PathAt(inv, i), GhostPath>>
                 ELSE <<PathAt(inv, i)>>
        keyFiles == IF i = 1 /\ "strayKeyFile" \in ds THEN <<PathAt(inv, i + 1)>>
                    ELSE IF i % 2 = 1 THEN files
                    ELSE <<>>
        componentType == IF i = 3 THEN "utility" ELSE ""
        technology == IF i = 5 THEN SuppliedTechnology ELSE NoTechnology
    IN  [Cluster(id, files, keyFiles, componentType) EXCEPT !.technology = technology]

AnswerEdges(inv, ds) ==
    <<Edge("e1",
           IF "unknownSource" \in ds THEN UnknownId ELSE ClusterId(1),
           ClusterId(2),
           <<TopDep(IF "ghostTopDependency" \in ds THEN GhostPath ELSE PathAt(inv, 1),
                    PathAt(inv, 2), 6)>>,
           "", "", ""),
      Edge("e2",
           ClusterId(2),
           IF "unknownTarget" \in ds THEN UnknownId ELSE ClusterId(3),
           <<>>,
           "uses", "Internal", "Uses shared helpers")>>
    \o (IF "parallelEdge" \in ds
        THEN <<Edge("e3", ClusterId(1), ClusterId(2), <<>>, "calls", "HTTP", "Calls again")>>
        ELSE <<>>)

AnswerData(inv, n, ds) ==
    GraphData(AllKeys \ ((IF "noClusters" \in ds THEN {"clusters"} ELSE {})
                         \cup (IF "noClusterEdges" \in ds THEN {"clusterEdges"} ELSE {})
                         \cup (IF "noFilteringDefaults" \in ds
                               THEN {"filteringDefaults"} ELSE {})),
              IF "noClusters" \in ds THEN <<>> ELSE [i \in 1..n |-> AnswerCluster(inv, i, ds)],
              IF "noClusterEdges" \in ds THEN <<>> ELSE AnswerEdges(inv, ds))

NoData == GraphData({}, <<>>, <<>>)

Answer(kind, data) == [kind |-> kind, data |-> data]

NoAnswer == Answer("none", NoData)

Answers(inv) ==
    {Answer("apiError", NoData), Answer("noJson", NoData), Answer("badJson", NoData)}
    \cup {Answer("json", AnswerData(inv, MinClusters, ds)) : ds \in DefectSets}
    \cup {Answer("json", AnswerData(inv, n, {})) : n \in ClusterCounts}

(***************************************************************************)
(* ClusterGraphSchema.safeParse: the issues, each rendered as the service  *)
(* renders it, `${e.path.join(".")}: ${e.message}`, in the order Zod       *)
(* visits the shape (an array's own size issue before its elements').      *)
(***************************************************************************)
Issue(path, message) == Join(path, ".") \o ": " \o message

StringMin1Issues(path, str) ==
    IF str = "" THEN <<Issue(path, "String must contain at least 1 character(s)")>> ELSE <<>>

\* ClusterSchema, for the cluster at array index ix (0-based text)
ClusterIssues(ix, c) ==
    StringMin1Issues(<<"clusters", ix, "id">>, c.id)
    \o (IF MatchesIdPattern(c.id) THEN <<>>
        ELSE <<Issue(<<"clusters", ix, "id">>, "Cluster ID must be lowercase-with-hyphens")>>)
    \o (IF Len(c.files) >= 1 THEN <<>>
        ELSE <<Issue(<<"clusters", ix, "files">>, "Array must contain at least 1 element(s)")>>)

\* ClusterEdgeSchema, for the edge at array index ix
ClusterEdgeIssues(ix, e) ==
    StringMin1Issues(<<"clusterEdges", ix, "id">>, e.id)
    \o StringMin1Issues(<<"clusterEdges", ix, "source">>, e.source)
    \o StringMin1Issues(<<"clusterEdges", ix, "target">>, e.target)

ClusterCountIssuesOffByOne(n) ==
    IF n < MinClusters - 1
    THEN <<Issue(<<"clusters">>,
                 "Array must contain at least " \o IndexText[MinClusters + 1] \o " element(s)")>>
    ELSE IF n > MaxClusters + 1
    THEN <<Issue(<<"clusters">>,
                 "Array must contain at most " \o IndexText[MaxClusters + 1] \o " element(s)")>>
    ELSE <<>>

\* clusters: z.array(ClusterSchema).min(5).max(12)
ClusterCountIssues(n) ==
    IF n < MinClusters
    THEN <<Issue(<<"clusters">>,
                 "Array must contain at least " \o IndexText[MinClusters + 1] \o " element(s)")>>
    ELSE IF n > MaxClusters
    THEN <<Issue(<<"clusters">>,
                 "Array must contain at most " \o IndexText[MaxClusters + 1] \o " element(s)")>>
    ELSE <<>>

\* ClusterGraphSchema
SchemaIssues(data) ==
    (IF "clusters" \notin data.keys THEN <<Issue(<<"clusters">>, "Required")>>
     ELSE ClusterCountIssues(Len(data.clusters))
          \o Flatten([i \in 1..Len(data.clusters) |->
                         ClusterIssues(IndexText[i], data.clusters[i])]))
    \o (IF "clusterEdges" \notin data.keys THEN <<Issue(<<"clusterEdges">>, "Required")>>
        ELSE Flatten([i \in 1..Len(data.clusterEdges) |->
                         ClusterEdgeIssues(IndexText[i], data.clusterEdges[i])]))
    \o (IF "filteringDefaults" \notin data.keys
        THEN <<Issue(<<"filteringDefaults">>, "Required")>>
        ELSE <<>>)

(***************************************************************************)
(* ArchitectureClusteringService.validateClusterGraph                      *)
(***************************************************************************)
ClusterErrors(cluster, inventoryPaths) ==
    Flatten([k \in 1..Len(cluster.files) |->
                IF cluster.files[k] \in inventoryPaths THEN <<>>
                ELSE <<"Cluster \"" \o cluster.id \o "\" references non-existent file: "
                       \o cluster.files[k]>>])
    \o Flatten([k \in 1..Len(cluster.keyFiles) |->
                   IF cluster.keyFiles[k] \in Range(cluster.files) THEN <<>>
                   ELSE <<"Cluster \"" \o cluster.id \o "\" keyFile \""
                          \o cluster.keyFiles[k] \o "\" not in files array">>])
    \o (IF MatchesIdPattern(cluster.id) THEN <<>>
        ELSE <<"Cluster ID \"" \o cluster.id \o "\" must be lowercase-with-hyphens">>)
    \o (IF Len(cluster.files) = 0
        THEN <<"Cluster \"" \o cluster.id \o "\" has no files">>
        ELSE <<>>)

EdgeErrorsSourceOnly(edge, clusterIds) ==
    IF edge.source \in clusterIds THEN <<>>
    ELSE <<"Edge \"" \o edge.id \o "\" references unknown source cluster: " \o edge.source>>

EdgeErrors(edge, clusterIds) ==
    (IF edge.source \in clusterIds THEN <<>>
     ELSE <<"Edge \"" \o edge.id \o "\" references unknown source cluster: "
            \o edge.source>>)
    \o (IF edge.target \in clusterIds THEN <<>>
        ELSE <<"Edge \"" \o edge.id \o "\" references unknown target cluster: "
               \o edge.target>>)

validateClusterGraph(graph, inv) ==
    LET inventoryPaths == InventoryPaths(inv)
        clusterIds == {graph.clusters[i].id : i \in 1..Len(graph.clusters)}
        errors ==
            Flatten([i \in 1..Len(graph.clusters) |->
                        ClusterErrors(graph.clusters[i], inventoryPaths)])
            \o Flatten([i \in 1..Len(graph.clusterEdges) |->
                           EdgeErrors(graph.clusterEdges[i], clusterIds)])
    IN  [valid |-> Len(errors) = 0, errors |-> errors]

(***************************************************************************)
(* ArchitectureClusteringService.buildClusteringPrompt.  The prompt is the *)
(* fixed instruction text with three holes, kept here as a record of the   *)
(* holes: the inventory summary, the user hint, and the error feedback.    *)
(***************************************************************************)
maxFiles == 500
maxSamples == 5
maxDependencies == 1000

Min(a, b) == IF a < b THEN a ELSE b

\* Array.prototype.slice(0, n)
Slice(arr, n) == SubSeq(arr, 1, Min(n, Len(arr)))

FileSummary(f) ==
    LET IsRuntime(i) == ~i.isTypeOnly
        runtime == SelectSeq(f.imports, IsRuntime)
    IN  [path |-> f.path,
         linesOfCode |-> f.linesOfCode,
         exports |-> Slice([k \in 1..Len(f.exports) |-> f.exports[k].name], maxSamples),
         imports |-> Slice([k \in 1..Len(runtime) |-> runtime[k].source], maxSamples)]

buildClusteringPrompt(inv, hint, errorFeedback) ==
    LET files == Slice(inv.files, maxFiles)
        FromShown(d) == \E k \in 1..Len(files) : files[k].path = d.from
        NotTypeOnly(d) == "type" \notin Range(d.importedTypes)
    IN  [inventorySummary |->
             [files |-> [k \in 1..Len(files) |-> FileSummary(files[k])],
              dependencies |->
                  Slice(SelectSeq(SelectSeq(inv.dependencies, FromShown), NotTypeOnly),
                        maxDependencies)],
         truncated |-> Len(inv.files) > maxFiles,
         userHint |-> IF hint # "" THEN <<"USER HINT:\n", hint, "\n\n">> ELSE <<>>,
         errorFeedback |-> errorFeedback]

FeedbackWithoutDetail(errorMsg) ==
    <<"\n\nPREVIOUS ATTEMPT FAILED:\n", "\n\nPlease fix the issues and output valid JSON.">>

\* lastError = `\n\nPREVIOUS ATTEMPT FAILED:\n${errorMsg}\n\nPlease fix ...`
Feedback(errorMsg) ==
    <<"\n\nPREVIOUS ATTEMPT FAILED:\n", errorMsg,
      "\n\nPlease fix the issues and output valid JSON.">>

ExhaustedErrorWithoutDetail(errorMsg) ==
    <<"LLM clustering failed after ", IndexText[maxAttempts + 1], " attempts.">>

\* `LLM clustering failed after ${maxAttempts} attempts. Last error: ${errorMsg}`
ExhaustedError(errorMsg) ==
    <<"LLM clustering failed after ", IndexText[maxAttempts + 1],
      " attempts. Last error: ", errorMsg>>

(***************************************************************************)
(* The body of the try block after the stream has been read: the message   *)
(* of the Error it throws, "" when it throws none.                         *)
(***************************************************************************)
ApiErrorText == "503 upstream unavailable"
JsonSyntaxErrorText == "Unexpected token < in JSON at position 0"

SchemaError(data) ==
    LET errors == SchemaIssues(data)
    IN  IF Len(errors) = 0 THEN ""
        ELSE "Schema validation failed: " \o Join(errors, ", ")

CrossReferenceError(data, inv) ==
    LET validation == validateClusterGraph(data, inv)
    IN  IF validation.valid THEN ""
        ELSE "Cluster validation failed: " \o Join(validation.errors, ", ")

AttemptError(answer, inv) ==
    IF answer.kind = "apiError" THEN ApiErrorText
    ELSE IF answer.kind = "noJson" THEN "No JSON object found in LLM response"
    ELSE IF answer.kind = "badJson" THEN JsonSyntaxErrorText
    ELSE IF SchemaError(answer.data) # "" THEN SchemaError(answer.data)
    ELSE CrossReferenceError(answer.data, inv)

(***************************************************************************)
(* Text of the model.  The strings the detection rules inspect are the     *)
(* paths, import sources and export names of the inventories above and of  *)
(* the files the detection rules are probed with further below; the        *)
(* table records, for each of them, what the String methods return:        *)
(* toLowerCase, split("/").pop(), the needles includes() finds among those *)
(* the rules look for, the suffixes endsWith() finds, and whether the file *)
(* name without its extension starts with a capital.                       *)
(***************************************************************************)
TextTable ==
    ("src/controllers/user.controller.ts" :> [lower |-> "src/controllers/user.controller.ts", fileName |-> "user.controller.ts",
        has |-> {"/controllers/", "controller."},
        ends |-> {}, stemStartsUpper |-> FALSE])
    @@
    ("user.controller.ts" :> [lower |-> "user.controller.ts", fileName |-> "user.controller.ts",
        has |-> {"controller."},
        ends |-> {}, stemStartsUpper |-> FALSE])
    @@
    ("src/services/user.service.ts" :> [lower |-> "src/services/user.service.ts", fileName |-> "user.service.ts",
        has |-> {"/services/", "service."},
        ends |-> {}, stemStartsUpper |-> FALSE])
    @@
    ("user.service.ts" :> [lower |-> "user.service.ts", fileName |-> "user.service.ts",
        has |-> {"service."},
        ends |-> {}, stemStartsUpper |-> FALSE])
    @@
    ("src/db/user.repository.ts" :> [lower |-> "src/db/user.repository.ts", fileName |-> "user.repository.ts",
        has |-> {"repository."},
        ends |-> {}, stemStartsUpper |-> FALSE])
    @@
    ("user.repository.ts" :> [lower |-> "user.repository.ts", fileName |-> "user.repository.ts",
        has |-> {"repository."},
        ends |-> {}, stemStartsUpper |-> FALSE])
    @@
    ("express" :> [lower |-> "express", fileName |-> "express",
        has |-> {"express"},
        ends |-> {}, stemStartsUpper |-> FALSE])
    @@
    ("../services/user.service" :> [lower |-> "../services/user.service", fileName |-> "user.service",
        has |-> {"/services/"},
        ends |-> {}, stemStartsUpper |-> FALSE])
    @@
    ("user.service" :> [lower |-> "user.service", fileName |-> "user.service",
        has |-> {},
        ends |-> {}, stemStartsUpper |-> FALSE])
    @@
    ("../db/user.repository" :> [lower |-> "../db/user.repository", fileName |-> "user.repository",
        has |-> {},
        ends |-> {}, stemStartsUpper |-> FALSE])
    @@
    ("user.repository" :> [lower |-> "user.repository", fileName |-> "user.repository",
        has |-> {},
        ends |-> {}, stemStartsUpper |-> FALSE])
    @@
    ("../types" :> [lower |-> "../types", fileName |-> "types",
        has |-> {},
        ends |-> {}, stemStartsUpper |-> FALSE])
    @@
    ("types" :> [lower |-> "types", fileName |-> "types",
        has |-> {},
        ends |-> {}, stemStartsUpper |-> FALSE])
    @@
    ("@prisma/client" :> [lower |-> "@prisma/client", fileName |-> "client",
        has |-> {"prisma", "@prisma/client"},
        ends |-> {}, stemStartsUpper |-> FALSE])
    @@
    ("client" :> [lower |-> "client", fileName |-> "client",
        has |-> {},
        ends |-> {}, stemStartsUpper |-> FALSE])
    @@
    ("UserController" :> [lower |-> "usercontroller", fileName |-> "UserController",
        has |-> {},
        ends |-> {"Controller"}, stemStartsUpper |-> TRUE])
    @@
    ("usercontroller" :> [lower |-> "usercontroller", fileName |-> "usercontroller",
        has |-> {},
        ends |-> {}, stemStartsUpper |-> FALSE])
    @@
    ("UserService" :> [lower |-> "userservice", fileName |-> "UserService",
        has |-> {},
        ends |-> {"Service"}, stemStartsUpper |-> TRUE])
    @@
    ("userservice" :> [lower |-> "userservice", fileName |-> "userservice",
        has |-> {},
        ends |-> {}, stemStartsUpper |-> FALSE])
    @@
    ("UserRepository" :> [lower |-> "userrepository", fileName |-> "UserRepository",
        has |-> {},
        ends |-> {"Repository"}, stemStartsUpper |-> TRUE])
    @@
    ("userrepository" :> [lower |-> "userrepository", fileName |-> "userrepository",
        has |-> {},
        ends |-> {}, stemStartsUpper |-> FALSE])
    @@
    ("src/api/client.ts" :> [lower |-> "src/api/client.ts", fileName |-> "client.ts",
        has |-> {"client.", "/api/"},
        ends |-> {}, stemStartsUpper |-> FALSE])
    @@
    ("client.ts" :> [lower |-> "client.ts", fileName |-> "client.ts",
        has |-> {"client."},
        ends |-> {}, stemStartsUpper |-> FALSE])
    @@
    ("src/controllers/api.gateway.ts" :> [lower |-> "src/controllers/api.gateway.ts", fileName |-> "api.gateway.ts",
        has |-> {"gateway.", "/controllers/"},
        ends |-> {}, stemStartsUpper |-> FALSE])
    @@
    ("api.gateway.ts" :> [lower |-> "api.gateway.ts", fileName |-> "api.gateway.ts",
        has |-> {"gateway."},
        ends |-> {}, stemStartsUpper |-> FALSE])
    @@
    ("src/routes/index.ts" :> [lower |-> "src/routes/index.ts", fileName |-> "index.ts",
        has |-> {"/routes/"},
        ends |-> {}, stemStartsUpper |-> FALSE])
    @@
    ("index.ts" :> [lower |-> "index.ts", fileName |-> "index.ts",
        has |-> {},
        ends |-> {}, stemStartsUpper |-> FALSE])
    @@
    ("src/Controllers/User.ts" :> [lower |-> "src/controllers/user.ts", fileName |-> "User.ts",
        has |-> {},
        ends |-> {}, stemStartsUpper |-> TRUE])
    @@
    ("src/controllers/user.ts" :> [lower |-> "src/controllers/user.ts", fileName |-> "user.ts",
        has |-> {"/controllers/"},
        ends |-> {}, stemStartsUpper |-> FALSE])
    @@
    ("user.ts" :> [lower |-> "user.ts", fileName |-> "user.ts",
        has |-> {},
        ends |-> {}, stemStartsUpper |-> FALSE])
    @@
    ("User.ts" :> [lower |-> "user.ts", fileName |-> "User.ts",
        has |-> {},
        ends |-> {}, stemStartsUpper |-> TRUE])
    @@
    ("src/clients/user.controller.ts" :> [lower |-> "src/clients/user.controller.ts", fileName |-> "user.controller.ts",
        has |-> {"controller.", "/clients/"},
        ends |-> {}, stemStartsUpper |-> FALSE])
    @@
    ("src/middleware/auth.ts" :> [lower |-> "src/middleware/auth.ts", fileName |-> "auth.ts",
        has |-> {"/middleware/", "middleware"},
        ends |-> {}, stemStartsUpper |-> FALSE])
    @@
    ("auth.ts" :> [lower |-> "auth.ts", fileName |-> "auth.ts",
        has |-> {},
        ends |-> {}, stemStartsUpper |-> FALSE])
    @@
    ("src/api/auth.middleware.ts" :> [lower |-> "src/api/auth.middleware.ts", fileName |-> "auth.middleware.ts",
        has |-> {"/api/", "middleware.", "middleware"},
        ends |-> {}, stemStartsUpper |-> FALSE])
    @@
    ("auth.middleware.ts" :> [lower |-> "auth.middleware.ts", fileName |-> "auth.middleware.ts",
        has |-> {"middleware.", "middleware"},
        ends |-> {}, stemStartsUpper |-> FALSE])
    @@
    ("src/services/payment.client.ts" :> [lower |-> "src/services/payment.client.ts", fileName |-> "payment.client.ts",
        has |-> {"client.", "/services/"},
        ends |-> {}, stemStartsUpper |-> FALSE])
    @@
    ("payment.client.ts" :> [lower |-> "payment.client.ts", fileName |-> "payment.client.ts",
        has |-> {"client."},
        ends |-> {}, stemStartsUpper |-> FALSE])
    @@
    ("src/core/task.manager.ts" :> [lower |-> "src/core/task.manager.ts", fileName |-> "task.manager.ts",
        has |-> {"manager."},
        ends |-> {}, stemStartsUpper |-> FALSE])
    @@
    ("task.manager.ts" :> [lower |-> "task.manager.ts", fileName |-> "task.manager.ts",
        has |-> {"manager."},
        ends |-> {}, stemStartsUpper |-> FALSE])
    @@
    ("src/repositories/user.dao.ts" :> [lower |-> "src/repositories/user.dao.ts", fileName |-> "user.dao.ts",
        has |-> {"/repositories/", "dao."},
        ends |-> {}, stemStartsUpper |-> FALSE])
    @@
    ("user.dao.ts" :> [lower |-> "user.dao.ts", fileName |-> "user.dao.ts",
        has |-> {"dao."},
        ends |-> {}, stemStartsUpper |-> FALSE])
    @@
    ("src/models/user.model.ts" :> [lower |-> "src/models/user.model.ts", fileName |-> "user.model.ts",
        has |-> {"/models/", "model."},
        ends |-> {}, stemStartsUpper |-> FALSE])
    @@
    ("user.model.ts" :> [lower |-> "user.model.ts", fileName |-> "user.model.ts",
        has |-> {"model."},
        ends |-> {}, stemStartsUpper |-> FALSE])
    @@
    ("src/components/Button.tsx" :> [lower |-> "src/components/button.tsx", fileName |-> "Button.tsx",
        has |-> {"/components/"},
        ends |-> {".tsx"}, stemStartsUpper |-> TRUE])
    @@
    ("src/components/button.tsx" :> [lower |-> "src/components/button.tsx", fileName |-> "button.tsx",
        has |-> {"/components/"},
        ends |-> {".tsx"}, stemStartsUpper |-> FALSE])
    @@
    ("button.tsx" :> [lower |-> "button.tsx", fileName |-> "button.tsx",
        has |-> {},
        ends |-> {".tsx"}, stemStartsUpper |-> FALSE])
    @@
    ("Button.tsx" :> [lower |-> "button.tsx", fileName |-> "Button.tsx",
        has |-> {},
        ends |-> {".tsx"}, stemStartsUpper |-> TRUE])
    @@
    ("src/ui/Button.tsx" :> [lower |-> "src/ui/button.tsx", fileName |-> "Button.tsx",
        has |-> {},
        ends |-> {".tsx"}, stemStartsUpper |-> TRUE])
    @@
    ("src/ui/button.tsx" :> [lower |-> "src/ui/button.tsx", fileName |-> "button.tsx",
        has |-> {},
        ends |-> {".tsx"}, stemStartsUpper |-> FALSE])
    @@
    ("src/clients/github.ts" :> [lower |-> "src/clients/github.ts", fileName |-> "github.ts",
        has |-> {"/clients/"},
        ends |-> {}, stemStartsUpper |-> FALSE])
    @@
    ("github.ts" :> [lower |-> "github.ts", fileName |-> "github.ts",
        has |-> {},
        ends |-> {}, stemStartsUpper |-> FALSE])
    @@
    ("src/integrations/github.ts" :> [lower |-> "src/integrations/github.ts", fileName |-> "github.ts",
        has |-> {},
        ends |-> {}, stemStartsUpper |-> FALSE])
    @@
    ("src/api/github.ts" :> [lower |-> "src/api/github.ts", fileName |-> "github.ts",
        has |-> {"/api/"},
        ends |-> {}, stemStartsUpper |-> FALSE])
    @@
    ("src/queue/email.worker.ts" :> [lower |-> "src/queue/email.worker.ts", fileName |-> "email.worker.ts",
        has |-> {"/queue/", "worker."},
        ends |-> {}, stemStartsUpper |-> FALSE])
    @@
    ("email.worker.ts" :> [lower |-> "email.worker.ts", fileName |-> "email.worker.ts",
        has |-> {"worker."},
        ends |-> {}, stemStartsUpper |-> FALSE])
    @@
    ("src/cache/session.ts" :> [lower |-> "src/cache/session.ts", fileName |-> "session.ts",
        has |-> {"/cache/"},
        ends |-> {}, stemStartsUpper |-> FALSE])
    @@
    ("session.ts" :> [lower |-> "session.ts", fileName |-> "session.ts",
        has |-> {},
        ends |-> {}, stemStartsUpper |-> FALSE])
    @@
    ("src/external/stripe.ts" :> [lower |-> "src/external/stripe.ts", fileName |-> "stripe.ts",
        has |-> {"/external/"},
        ends |-> {}, stemStartsUpper |-> FALSE])
    @@
    ("stripe.ts" :> [lower |-> "stripe.ts", fileName |-> "stripe.ts",
        has |-> {},
        ends |-> {}, stemStartsUpper |-> FALSE])
    @@
    ("src/config/env.ts" :> [lower |-> "src/config/env.ts", fileName |-> "env.ts",
        has |-> {"/config/"},
        ends |-> {}, stemStartsUpper |-> FALSE])
    @@
    ("env.ts" :> [lower |-> "env.ts", fileName |-> "env.ts",
        has |-> {},
        ends |-> {}, stemStartsUpper |-> FALSE])
    @@
    ("src/env.ts" :> [lower |-> "src/env.ts", fileName |-> "env.ts",
        has |-> {},
        ends |-> {}, stemStartsUpper |-> FALSE])
    @@
    ("src/constants.ts" :> [lower |-> "src/constants.ts", fileName |-> "constants.ts",
        has |-> {},
        ends |-> {}, stemStartsUpper |-> FALSE])
    @@
    ("constants.ts" :> [lower |-> "constants.ts", fileName |-> "constants.ts",
        has |-> {},
        ends |-> {}, stemStartsUpper |-> FALSE])
    @@
    ("src/utils/format.ts" :> [lower |-> "src/utils/format.ts", fileName |-> "format.ts",
        has |-> {"/utils/"},
        ends |-> {}, stemStartsUpper |-> FALSE])
    @@
    ("format.ts" :> [lower |-> "format.ts", fileName |-> "format.ts",
        has |-> {},
        ends |-> {}, stemStartsUpper |-> FALSE])
    @@
    ("src/misc/thing.ts" :> [lower |-> "src/misc/thing.ts", fileName |-> "thing.ts",
        has |-> {},
        ends |-> {}, stemStartsUpper |-> FALSE])
    @@
    ("thing.ts" :> [lower |-> "thing.ts", fileName |-> "thing.ts",
        has |-> {},
        ends |-> {}, stemStartsUpper |-> FALSE])
    @@
    ("authMiddleware" :> [lower |-> "authmiddleware", fileName |-> "authMiddleware",
        has |-> {},
        ends |-> {}, stemStartsUpper |-> FALSE])
    @@
    ("authmiddleware" :> [lower |-> "authmiddleware", fileName |-> "authmiddleware",
        has |-> {"middleware"},
        ends |-> {}, stemStartsUpper |-> FALSE])
    @@
    ("Button" :> [lower |-> "button", fileName |-> "Button",
        has |-> {},
        ends |-> {}, stemStartsUpper |-> TRUE])
    @@
    ("button" :> [lower |-> "button", fileName |-> "button",
        has |-> {},
        ends |-> {}, stemStartsUpper |-> FALSE])
    @@
    ("format" :> [lower |-> "format", fileName |-> "format",
        has |-> {},
        ends |-> {}, stemStartsUpper |-> FALSE])
    @@
    ("axios" :> [lower |-> "axios", fileName |-> "axios",
        has |-> {"axios"},
        ends |-> {}, stemStartsUpper |-> FALSE])
    @@
    ("sequelize" :> [lower |-> "sequelize", fileName |-> "sequelize",
        has |-> {"sequelize"},
        ends |-> {}, stemStartsUpper |-> FALSE])
    @@
    ("bull" :> [lower |-> "bull", fileName |-> "bull",
        has |-> {"bull"},
        ends |-> {}, stemStartsUpper |-> FALSE])
    @@
    ("ioredis" :> [lower |-> "ioredis", fileName |-> "ioredis",
        has |-> {"redis"},
        ends |-> {}, stemStartsUpper |-> FALSE])
    @@
    ("@grpc/grpc-js" :> [lower |-> "@grpc/grpc-js", fileName |-> "grpc-js",
        has |-> {"grpc", "@grpc"},
        ends |-> {}, stemStartsUpper |-> FALSE])
    @@
    ("grpc-js" :> [lower |-> "grpc-js", fileName |-> "grpc-js",
        has |-> {"grpc"},
        ends |-> {}, stemStartsUpper |-> FALSE])
    @@
    ("@apollo/client" :> [lower |-> "@apollo/client", fileName |-> "client",
        has |-> {"apollo"},
        ends |-> {}, stemStartsUpper |-> FALSE])
    @@
    ("socket.io" :> [lower |-> "socket.io", fileName |-> "socket.io",
        has |-> {"socket.io"},
        ends |-> {}, stemStartsUpper |-> FALSE])
    @@
    ("aws-sdk" :> [lower |-> "aws-sdk", fileName |-> "aws-sdk",
        has |-> {"ws"},
        ends |-> {}, stemStartsUpper |-> FALSE])
    @@
    ("./format" :> [lower |-> "./format", fileName |-> "format",
        has |-> {},
        ends |-> {}, stemStartsUpper |-> FALSE])

toLowerCase(s) == TextTable[s].lower

Includes(s, needle) == needle \in TextTable[s].has

EndsWith(s, suffix) == suffix \in TextTable[s].ends

\* path.split("/").pop()
LastSegment(path) == TextTable[path].fileName

\* /^[A-Z]/.test(fileNameOriginal.replace(/\.(tsx|jsx|ts|js)$/, ""))
StemStartsUpperCase(fileNameOriginal) == TextTable[fileNameOriginal].stemStartsUpper

IncludesAny(s, needles) == \E n \in needles : Includes(s, n)

(***************************************************************************)
(* C4ComponentDetectionService.                                            *)
(***************************************************************************)
\* the rules with the gateway rule moved in front of the controller rule
detectComponentTypeGatewayFirst(file) ==
    LET path == toLowerCase(file.path)
        fileName == LastSegment(path)
        fileNameOriginal == LastSegment(file.path)
        exportNames == [i \in 1..Len(file.exports) |-> file.exports[i].name]
        hasControllerExport == \E n \in Range(exportNames) : EndsWith(n, "Controller")
        hasServiceExport == \E n \in Range(exportNames) : EndsWith(n, "Service")
        hasRepositoryExport == \E n \in Range(exportNames) : EndsWith(n, "Repository")
        importSources == {toLowerCase(file.imports[i].source) : i \in 1..Len(file.imports)}
        someImport(needles) == \E src \in importSources : IncludesAny(src, needles)
        isClientFile == IncludesAny(fileName, {"client.", "gateway."})
    IN  IF \/ IncludesAny(path, {"/gateways/", "/clients/"})
           \/ isClientFile
           \/ someImport({"axios", "@octokit"})
        THEN "gateway"
        ELSE IF \/ IncludesAny(path, {"/controllers/", "/routes/", "/api/"})
                \/ IncludesAny(fileName, {"controller.", "route."})
                \/ hasControllerExport
        THEN "controller"
        ELSE IF \/ Includes(path, "/middleware/")
                \/ Includes(fileName, "middleware.")
                \/ \E n \in Range(exportNames) : Includes(toLowerCase(n), "middleware")
        THEN "middleware"
        ELSE IF \/ Includes(path, "/services/")
                \/ IncludesAny(fileName, {"service.", "manager."})
                \/ hasServiceExport
        THEN "service"
        ELSE IF \/ IncludesAny(path, {"/repositories/", "/data-access/", "/dao/"})
                \/ IncludesAny(fileName, {"repository.", "dao."})
                \/ hasRepositoryExport
                \/ someImport({"prisma", "typeorm", "mongoose"})
        THEN "repository"
        ELSE IF \/ IncludesAny(path, {"/models/", "/entities/", "/schemas/"})
                \/ IncludesAny(fileName, {"model.", "entity.", "schema."})
                \/ someImport({"@prisma/client", "sequelize"})
        THEN "database"
        ELSE IF IncludesAny(path, {"/components/", "/views/", "/pages/"})
        THEN "component"
        ELSE IF /\ (EndsWith(fileName, ".tsx") \/ EndsWith(fileName, ".jsx"))
                /\ \E i \in 1..Len(file.exports) : file.exports[i].kind \in {"function", "const"}
                /\ StemStartsUpperCase(fileNameOriginal)
        THEN "component"
        ELSE IF \/ IncludesAny(path, {"/queue/", "/events/", "/jobs/"})
                \/ IncludesAny(fileName, {"queue.", "worker."})
                \/ someImport({"bull", "kafka", "rabbitmq", "amqp"})
        THEN "message_queue"
        ELSE IF \/ Includes(path, "/cache/")
                \/ Includes(fileName, "cache.")
                \/ someImport({"redis", "memcached", "node-cache"})
        THEN "cache"
        ELSE IF IncludesAny(path, {"/third-party/", "/external/"})
        THEN "external_system"
        ELSE IF \/ Includes(path, "/config/")
                \/ IncludesAny(fileName, {"config.", "settings."})
                \/ fileName \in {"constants.ts", "env.ts"}
        THEN "config"
        ELSE "utility"

detectComponentType(file) ==
    LET path == toLowerCase(file.path)
        fileName == LastSegment(path)
        fileNameOriginal == LastSegment(file.path)
        exportNames == [i \in 1..Len(file.exports) |-> file.exports[i].name]
        hasControllerExport == \E n \in Range(exportNames) : EndsWith(n, "Controller")
        hasServiceExport == \E n \in Range(exportNames) : EndsWith(n, "Service")
        hasRepositoryExport == \E n \in Range(exportNames) : EndsWith(n, "Repository")
        importSources == {toLowerCase(file.imports[i].source) : i \in 1..Len(file.imports)}
        someImport(needles) == \E src \in importSources : IncludesAny(src, needles)
        isClientFile == IncludesAny(fileName, {"client.", "gateway."})
    IN  IF /\ ~isClientFile
           /\ \/ IncludesAny(path, {"/controllers/", "/routes/", "/api/"})
              \/ IncludesAny(fileName, {"controller.", "route."})
              \/ hasControllerExport
        THEN "controller"
        ELSE IF \/ Includes(path, "/middleware/")
                \/ Includes(fileName, "middleware.")
                \/ \E n \in Range(exportNames) : Includes(toLowerCase(n), "middleware")
        THEN "middleware"
        ELSE IF \/ Includes(path, "/services/")
                \/ IncludesAny(fileName, {"service.", "manager."})
                \/ hasServiceExport
        THEN "service"
        ELSE IF \/ IncludesAny(path, {"/repositories/", "/data-access/", "/dao/"})
                \/ IncludesAny(fileName, {"repository.", "dao."})
                \/ hasRepositoryExport
                \/ someImport({"prisma", "typeorm", "mongoose"})
        THEN "repository"
        ELSE IF \/ IncludesAny(path, {"/models/", "/entities/", "/schemas/"})
                \/ IncludesAny(fileName, {"model.", "entity.", "schema."})
                \/ someImport({"@prisma/client", "sequelize"})
        THEN "database"
        ELSE IF IncludesAny(path, {"/components/", "/views/", "/pages/"})
        THEN "component"
        ELSE IF /\ (EndsWith(fileName, ".tsx") \/ EndsWith(fileName, ".jsx"))
                /\ \E i \in 1..Len(file.exports) : file.exports[i].kind \in {"function", "const"}
                /\ StemStartsUpperCase(fileNameOriginal)
        THEN "component"
        ELSE IF \/ IncludesAny(path, {"/gateways/", "/clients/"})
                \/ IncludesAny(fileName, {"client.", "gateway."})
        THEN "gateway"
        ELSE IF /\ ~IncludesAny(path, {"/controllers/", "/routes/", "/api/"})
                /\ someImport({"axios", "@octokit"})
        THEN "gateway"
        ELSE IF \/ IncludesAny(path, {"/queue/", "/events/", "/jobs/"})
                \/ IncludesAny(fileName, {"queue.", "worker."})
                \/ someImport({"bull", "kafka", "rabbitmq", "amqp"})
        THEN "message_queue"
        ELSE IF \/ Includes(path, "/cache/")
                \/ Includes(fileName, "cache.")
                \/ someImport({"redis", "memcached", "node-cache"})
        THEN "cache"
        ELSE IF IncludesAny(path, {"/third-party/", "/external/"})
        THEN "external_system"
        ELSE IF \/ Includes(path, "/config/")
                \/ IncludesAny(fileName, {"config.", "settings."})
                \/ fileName \in {"constants.ts", "env.ts"}
        THEN "config"
        ELSE "utility"

Pattern(pattern, name) == [pattern |-> pattern, name |-> name]

frameworks ==
    <<Pattern("next", "Next.js"), Pattern("@nestjs", "NestJS"), Pattern("express", "Express"),
      Pattern("react", "React"), Pattern("vue", "Vue"), Pattern("angular", "Angular"),
      Pattern("fastify", "Fastify"), Pattern("koa", "Koa")>>

libraryPatterns ==
    <<Pattern("axios", "Axios"), Pattern("zod", "Zod"), Pattern("rxjs", "RxJS"),
      Pattern("lodash", "Lodash"), Pattern("date-fns", "date-fns"), Pattern("uuid", "uuid"),
      Pattern("joi", "Joi"), Pattern("yup", "Yup")>>

dbPatterns ==
    <<Pattern("@prisma/client", "Prisma"), Pattern("prisma", "Prisma"),
      Pattern("typeorm", "TypeORM"), Pattern("mongoose", "MongoDB"),
      Pattern("sequelize", "Sequelize"), Pattern("pg", "PostgreSQL"),
      Pattern("mysql", "MySQL"), Pattern("sqlite", "SQLite")>>

messagingPatterns ==
    <<Pattern("kafka", "Kafka"), Pattern("rabbitmq", "RabbitMQ"), Pattern("amqp", "AMQP"),
      Pattern("bull", "Bull"), Pattern("redis", "Redis")>>

maxLibraries == 5

\* the names of the patterns some import includes, in pattern order
MatchedNames(patterns, allImports) ==
    LET matches(p) == \E imp \in Range(allImports) : Includes(imp, p.pattern)
        kept == SelectSeq(patterns, matches)
    IN  [i \in 1..Len(kept) |-> kept[i].name]

\* files.flatMap(f => f.imports.map(i => i.source.toLowerCase()))
LowerCaseImports(fileList) ==
    Flatten([k \in 1..Len(fileList) |->
                [i \in 1..Len(fileList[k].imports) |->
                    toLowerCase(fileList[k].imports[i].source)]])

detectTechnologyStack(clusterFiles) ==
    LET allImports == LowerCaseImports(clusterFiles)
        hasTypeScript == \E k \in 1..Len(clusterFiles) : clusterFiles[k].language = "typescript"
        matchedFrameworks == MatchedNames(frameworks, allImports)
        matchedLibraries == MatchedNames(libraryPatterns, allImports)
    IN  TechnologyStack(IF hasTypeScript THEN "TypeScript" ELSE "JavaScript",
                        IF Len(matchedFrameworks) > 0 THEN matchedFrameworks[1] ELSE "",
                        SubSeq(matchedLibraries, 1, Min(maxLibraries, Len(matchedLibraries))),
                        Dedup(MatchedNames(dbPatterns, allImports)),
                        Dedup(MatchedNames(messagingPatterns, allImports)))

writeCountThreshold == 5

\* the read/write rule with `>=` for `>`
detectRelationshipTypeAtThreshold(fromCluster, toCluster, topDependencies) ==
    LET fromType == fromCluster.componentType
        toType == toCluster.componentType
    IN  IF fromType = "" \/ toType = "" THEN "uses"
        ELSE IF fromType = "component" /\ toType = "component" THEN "renders"
        ELSE IF fromType = "controller" /\ toType = "service" THEN "calls"
        ELSE IF fromType = "service" /\ toType = "service" THEN "calls"
        ELSE IF fromType = "service" /\ toType = "repository" THEN "calls"
        ELSE IF fromType = "repository" /\ toType = "database"
        THEN IF Len(topDependencies) > 0 /\ topDependencies[1].count >= writeCountThreshold
             THEN "writes_to" ELSE "reads_from"
        ELSE IF toType = "message_queue" THEN "publishes_to"
        ELSE IF fromType = "message_queue" THEN "subscribes_to"
        ELSE IF fromType = "gateway" \/ toType = "external_system" THEN "calls"
        ELSE "uses"

\* topDependencies[0] may be undefined: the whole array is passed
detectRelationshipType(fromCluster, toCluster, topDependencies) ==
    LET fromType == fromCluster.componentType
        toType == toCluster.componentType
    IN  IF fromType = "" \/ toType = "" THEN "uses"
        ELSE IF fromType = "component" /\ toType = "component" THEN "renders"
        ELSE IF fromType = "controller" /\ toType = "service" THEN "calls"
        ELSE IF fromType = "service" /\ toType = "service" THEN "calls"
        ELSE IF fromType = "service" /\ toType = "repository" THEN "calls"
        ELSE IF fromType = "repository" /\ toType = "database"
        THEN IF Len(topDependencies) > 0 /\ topDependencies[1].count > writeCountThreshold
             THEN "writes_to" ELSE "reads_from"
        ELSE IF toType = "message_queue" THEN "publishes_to"
        ELSE IF fromType = "message_queue" THEN "subscribes_to"
        ELSE IF fromType = "gateway" \/ toType = "external_system" THEN "calls"
        ELSE "uses"

generateEdgeDescription(fromCluster, toCluster, relationshipType) ==
    LET fromType == fromCluster.componentType
        toType == toCluster.componentType
    IN  IF fromType = "controller" /\ toType = "service" THEN "Delegates business operations"
        ELSE IF fromType = "service" /\ toType = "repository" THEN "Requests data operations"
        ELSE IF fromType = "repository" /\ toType = "database"
        THEN IF relationshipType = "writes_to" THEN "Persists data" ELSE "Queries data"
        ELSE IF fromType = "service" /\ toType = "gateway" THEN "Calls external APIs"
        ELSE IF fromType = "gateway" /\ toType = "external_system"
        THEN "Integrates with external services"
        ELSE IF toType = "message_queue" THEN "Publishes events"
        ELSE IF fromType = "message_queue" THEN "Receives events"
        ELSE IF toType = "cache" THEN "Caches data"
        ELSE IF fromType = "component" /\ toType = "component" THEN "Renders child components"
        ELSE IF fromType = "component" /\ toType = "service" THEN "Invokes operations"
        ELSE IF fromType = "middleware" /\ toType = "service" THEN "Forwards requests"
        ELSE IF relationshipType = "calls" THEN "Invokes operations"
        ELSE IF relationshipType = "uses" THEN "Uses functionality"
        ELSE IF relationshipType = "renders" THEN "Displays content"
        ELSE IF relationshipType = "reads_from" THEN "Reads data"
        ELSE IF relationshipType = "writes_to" THEN "Writes data"
        ELSE IF relationshipType = "publishes_to" THEN "Sends messages"
        ELSE IF relationshipType = "subscribes_to" THEN "Receives messages"
        ELSE "Interacts with"

\* inventory.files.find(f => f.path === path): <<>> when undefined
FindFile(fileList, path) ==
    LET found == SelectSeq(fileList, LAMBDA f : f.path = path)
    IN  IF Len(found) = 0 THEN <<>> ELSE <<found[1]>>

\* the component-type defaults consulted before the imports
detectProtocolDefaultsFirst(fromCluster, toCluster, topDependencies, inv) ==
    LET fromType == fromCluster.componentType
        toType == toCluster.componentType
        dependencyFiles ==
            Flatten([k \in 1..Len(topDependencies) |->
                        FindFile(inv.files, topDependencies[k].from)])
        allImports == Range(LowerCaseImports(dependencyFiles))
        someImport(needles) == \E imp \in allImports : IncludesAny(imp, needles)
    IN  IF toType = "database" THEN "SQL"
        ELSE IF toType = "cache" THEN "Redis"
        ELSE IF toType = "message_queue" THEN "AMQP"
        ELSE IF fromType = "controller" \/ toType = "gateway" THEN "HTTP"
        ELSE IF fromType = "gateway" \/ toType = "external_system" THEN "REST"
        ELSE IF someImport({"grpc", "@grpc"}) THEN "gRPC"
        ELSE IF someImport({"graphql", "apollo"}) THEN "GraphQL"
        ELSE IF someImport({"socket.io", "ws", "websocket"}) THEN "WebSocket"
        ELSE "Internal"

detectProtocol(fromCluster, toCluster, topDependencies, inv) ==
    LET fromType == fromCluster.componentType
        toType == toCluster.componentType
        dependencyFiles ==
            Flatten([k \in 1..Len(topDependencies) |->
                        FindFile(inv.files, topDependencies[k].from)])
        allImports == Range(LowerCaseImports(dependencyFiles))
        someImport(needles) == \E imp \in allImports : IncludesAny(imp, needles)
    IN  IF someImport({"grpc", "@grpc"}) THEN "gRPC"
        ELSE IF someImport({"graphql", "apollo"}) THEN "GraphQL"
        ELSE IF someImport({"socket.io", "ws", "websocket"}) THEN "WebSocket"
        ELSE IF toType = "database" THEN "SQL"
        ELSE IF toType = "cache" THEN "Redis"
        ELSE IF toType = "message_queue" THEN "AMQP"
        ELSE IF fromType = "controller" \/ toType = "gateway" THEN "HTTP"
        ELSE IF fromType = "gateway" \/ toType = "external_system" THEN "REST"
        ELSE "Internal"

(***************************************************************************)
(* enrichWithC4Detection.                                                  *)
(***************************************************************************)
c4Version == 2

\* the cluster enrichment without its "if not provided" tests
EnrichClusterOverwriting(cluster, inv) ==
    LET clusterFiles ==
            Flatten([k \in 1..Len(cluster.files) |-> FindFile(inv.files, cluster.files[k])])
        keyFile == IF Len(cluster.keyFiles) > 0
                   THEN FindFile(inv.files, cluster.keyFiles[1])
                   ELSE <<clusterFiles[1]>>
    IN  IF Len(clusterFiles) = 0 THEN cluster
        ELSE [cluster EXCEPT
                 !.componentType = IF Len(keyFile) > 0
                                   THEN detectComponentType(keyFile[1]) ELSE @,
                 !.technology = detectTechnologyStack(clusterFiles),
                 !.version = c4Version]

\* the key file taken from keyFiles only, without the fallback to the first file
EnrichClusterKeyFileOnly(cluster, inv) ==
    LET clusterFiles ==
            Flatten([k \in 1..Len(cluster.files) |-> FindFile(inv.files, cluster.files[k])])
        keyFile == IF Len(cluster.keyFiles) > 0
                   THEN FindFile(inv.files, cluster.keyFiles[1])
                   ELSE <<>>
    IN  IF Len(clusterFiles) = 0 THEN cluster
        ELSE [cluster EXCEPT
                 !.componentType = IF @ = "" /\ Len(keyFile) > 0
                                   THEN detectComponentType(keyFile[1]) ELSE @,
                 !.technology = IF @ = NoTechnology
                                THEN detectTechnologyStack(clusterFiles) ELSE @,
                 !.version = c4Version]

EnrichCluster(cluster, inv) ==
    LET clusterFiles ==
            Flatten([k \in 1..Len(cluster.files) |-> FindFile(inv.files, cluster.files[k])])
        keyFile == IF Len(cluster.keyFiles) > 0
                   THEN FindFile(inv.files, cluster.keyFiles[1])
                   ELSE <<clusterFiles[1]>>
    IN  IF Len(clusterFiles) = 0 THEN cluster
        ELSE [cluster EXCEPT
                 !.componentType = IF @ = "" /\ Len(keyFile) > 0
                                   THEN detectComponentType(keyFile[1]) ELSE @,
                 !.technology = IF @ = NoTechnology
                                THEN detectTechnologyStack(clusterFiles) ELSE @,
                 !.version = c4Version]

\* clusters.find(c => c.id === id): <<>> when undefined
FindCluster(clusters, id) ==
    LET found == SelectSeq(clusters, LAMBDA c : c.id = id)
    IN  IF Len(found) = 0 THEN <<>> ELSE <<found[1]>>

EnrichEdge(edge, clusters, inv) ==
    LET sourceCluster == FindCluster(clusters, edge.source)
        targetCluster == FindCluster(clusters, edge.target)
    IN  IF Len(sourceCluster) = 0 \/ Len(targetCluster) = 0 THEN edge
        ELSE LET relationshipType ==
                     IF edge.relationshipType = ""
                     THEN detectRelationshipType(sourceCluster[1], targetCluster[1],
                                                 edge.topDependencies)
                     ELSE edge.relationshipType
                 protocol ==
                     IF edge.protocol = ""
                     THEN detectProtocol(sourceCluster[1], targetCluster[1],
                                         edge.topDependencies, inv)
                     ELSE edge.protocol
                 description ==
                     IF edge.description = "" /\ relationshipType # ""
                     THEN generateEdgeDescription(sourceCluster[1], targetCluster[1],
                                                  relationshipType)
                     ELSE edge.description
             IN  [edge EXCEPT !.relationshipType = relationshipType,
                              !.protocol = protocol,
                              !.description = description]

\* the graph after the in-place enrichment: clusters first, then edges
enrichWithC4Detection(clusterGraph, inv) ==
    LET clusters == [k \in 1..Len(clusterGraph.clusters) |->
                        EnrichCluster(clusterGraph.clusters[k], inv)]
    IN  [clusterGraph EXCEPT
            !.clusters = clusters,
            !.clusterEdges = [k \in 1..Len(clusterGraph.clusterEdges) |->
                                 EnrichEdge(clusterGraph.clusterEdges[k], clusters, inv)]]

\* result.data: the parsed answer with the schema's default `version`
ParsedCluster(c) ==
    [id |-> c.id, files |-> c.files, keyFiles |-> c.keyFiles,
     componentType |-> c.componentType, technology |-> c.technology,
     version |-> c4Version]

(***************************************************************************)
(* Success path of clusterArchitecture: id and metadata.                   *)
(***************************************************************************)
Clock == 1..MaxClock
RandomSuffixes == {"k3x9q1", "p0d7zz"}

\* `arch-${timestamp}-${random}`
generateClusterGraphId(now, random) == "arch-" \o IndexText[now + 1] \o "-" \o random

\* sha256 over JSON.stringify({fileCount, totalLOC, timestamp}); the digest is
\* represented by the triple it is computed from
hashInventory(inv) ==
    <<Len(inv.files), inv.metadata.totalLOC, inv.metadata.timestamp>>

ReturnedGraph(data, inv, now, random) ==
    enrichWithC4Detection(
        [id |-> generateClusterGraphId(now, random),
         clusters |-> [k \in 1..Len(data.clusters) |-> ParsedCluster(data.clusters[k])],
         clusterEdges |-> data.clusterEdges,
         metadata |-> [timestamp |-> now,
                       clusterCount |-> Len(data.clusters),
                       sourceInventoryHash |-> hashInventory(inv),
                       schemaVersion |-> c4Version,
                       c4Level |-> "C3"]],
        inv)

(***************************************************************************)
(* clusterArchitecture as a state machine.  The only suspension point of   *)
(* one loop iteration is the read of the collaborator's stream, so an      *)
(* iteration is two steps: the prompt is sent, the answer is processed.    *)
(***************************************************************************)
\* every answer paired with the error of the attempt that consumes it
Outcomes ==
    [inv \in Inventories |->
        {[answer |-> a, error |-> AttemptError(a, inv)] : a \in Answers(inv)}]

ClusterStart ==
    /\ inventory \in Inventories
    /\ userHint \in UserHints
    /\ pc = "loop"
    /\ attempts = 0
    /\ lastError = <<>>
    /\ prompts = <<>>
    /\ errorLog = <<>>
    /\ response = NoAnswer
    /\ result = <<>>
    /\ thrown = <<>>

\* while (attempts < maxAttempts) { prompt = build...; stream = api.createMessage(...)
SendPrompt ==
    /\ pc = "loop"
    /\ attempts < maxAttempts
    /\ prompts' = Append(prompts, buildClusteringPrompt(inventory, userHint, lastError))
    /\ pc' = "awaiting"
    /\ UNCHANGED <<inventory, userHint, attempts, lastError, errorLog, response, result,
                   thrown>>
    /\ UNCHANGED outsideCluster

\* the answer passes parsing, schema validation and cross-reference validation
ReceiveValid ==
    /\ pc = "awaiting"
    /\ \E o \in Outcomes[inventory], now \in Clock, random \in RandomSuffixes :
          /\ o.error = ""
          /\ response' = o.answer
          /\ result' = <<ReturnedGraph(o.answer.data, inventory, now, random)>>
    /\ pc' = "returned"
    /\ UNCHANGED <<inventory, userHint, attempts, lastError, prompts, errorLog, thrown>>
    /\ UNCHANGED outsideCluster

\* catch (error) with attempts left: the feedback for the next prompt is set
ReceiveInvalidRetry ==
    /\ pc = "awaiting"
    /\ attempts + 1 < maxAttempts
    /\ \E o \in Outcomes[inventory] :
          /\ o.error # ""
          /\ response' = o.answer
          /\ errorLog' = Append(errorLog, o.error)
          /\ lastError' = Feedback(o.error)
    /\ attempts' = attempts + 1
    /\ pc' = "loop"
    /\ UNCHANGED <<inventory, userHint, prompts, result, thrown>>
    /\ UNCHANGED outsideCluster

\* catch (error) with attempts >= maxAttempts: the call throws
ReceiveInvalidExhausted ==
    /\ pc = "awaiting"
    /\ attempts + 1 >= maxAttempts
    /\ \E o \in Outcomes[inventory] :
          /\ o.error # ""
          /\ response' = o.answer
          /\ errorLog' = Append(errorLog, o.error)
          /\ thrown' = ExhaustedError(o.error)
    /\ attempts' = attempts + 1
    /\ pc' = "threw"
    /\ UNCHANGED <<inventory, userHint, prompts, lastError, result>>
    /\ UNCHANGED outsideCluster

ClusterNext == SendPrompt \/ ReceiveValid \/ ReceiveInvalidRetry \/ ReceiveInvalidExhausted

(***************************************************************************)
(* Properties of clusterArchitecture.                                      *)
(***************************************************************************)

\* round-trips to the collaborator that were started and have not ended
InFlight == Len(prompts) - Len(errorLog) - Len(result)

\* C1: one call of clusterArchitecture invokes the collaborator at most 3 times,
\* one round-trip at a time: a prompt is sent only when every earlier attempt has
\* failed, and none is sent after an attempt has passed validation.
C1_AtMostThreeSequentialAttempts ==
    /\ [](/\ Len(prompts) <= 3
          /\ InFlight \in {0, 1}
          /\ (result # <<>> => pc = "returned"))
    /\ [][prompts' # prompts =>
            /\ Len(prompts') = Len(prompts) + 1
            /\ Len(errorLog) = Len(prompts)
            /\ result = <<>>]_vars

\* two failed attempts followed by a third one that passes
C1_Witness == Len(prompts) = 3 /\ Len(errorLog) = 2 /\ result # <<>>

\* the messages a schema failure can carry for an answer without clusterEdges
ClusterEdgesRequiredMessages ==
    {"Schema validation failed: " \o Join(<<"clusterEdges: Required">> \o rest, ", ") :
        rest \in {<<>>, <<"filteringDefaults: Required">>}}

\* C2: the prompt of attempt k+1 contains the error text of the failed attempt k
\* (an answer without clusterEdges fails with a message naming clusterEdges), and
\* the first prompt carries no failure feedback.
C2_FeedbackCarriesPreviousError ==
    /\ \A k \in 1..Len(prompts) :
          IF k = 1 THEN prompts[k].errorFeedback = <<>>
          ELSE errorLog[k - 1] \in Range(prompts[k].errorFeedback)
    /\ (response.kind = "json" /\ "clusterEdges" \notin response.data.keys
        /\ "clusters" \in response.data.keys) =>
          /\ Len(errorLog) >= 1
          /\ Last(errorLog) \in ClusterEdgesRequiredMessages

\* a parse failure, then an answer without clusterEdges, then a third prompt
C2_Witness ==
    /\ Len(prompts) = 3
    /\ errorLog[1] = JsonSyntaxErrorText
    /\ errorLog[2] = "Schema validation failed: clusterEdges: Required"
    /\ errorLog[2] \in Range(prompts[3].errorFeedback)

\* C3: when all 3 attempts fail the call throws, the thrown message ends with the
\* error of the third attempt verbatim, and no ClusterGraph is returned.
C3_ExhaustionSurfacesLastError ==
    /\ Len(errorLog) = 3 <=> pc = "threw"
    /\ pc = "threw" =>
          /\ result = <<>>
          /\ Last(thrown) = errorLog[3]
          /\ \A k \in 1..2 : errorLog[k] \in Range(thrown) => errorLog[k] = errorLog[3]
    /\ pc # "threw" => thrown = <<>>

\* three different failures: cross-reference, schema, parse
C3_Witness ==
    /\ pc = "threw"
    /\ errorLog[1] # errorLog[3]
    /\ errorLog[2] # errorLog[3]
    /\ errorLog[3] = "No JSON object found in LLM response"

GraphClusterIds(g) == {g.clusters[i].id : i \in 1..Len(g.clusters)}

\* C4: every returned ClusterGraph is closed under cross-reference: cluster files
\* are inventory paths, keyFiles are among the cluster's files, and edge sources and
\* targets are ids of clusters of the graph.
C4_ReturnedGraphIsCrossReferenceClosed ==
    result # <<>> =>
        LET g == result[1]
        IN  /\ \A i \in 1..Len(g.clusters) :
                  /\ Range(g.clusters[i].files) \subseteq InventoryPaths(inventory)
                  /\ Range(g.clusters[i].keyFiles) \subseteq Range(g.clusters[i].files)
            /\ \A j \in 1..Len(g.clusterEdges) :
                  /\ g.clusterEdges[j].source \in GraphClusterIds(g)
                  /\ g.clusterEdges[j].target \in GraphClusterIds(g)

\* a graph with edges and key files is returned after an attempt that failed
\* cross-reference validation
C4_Witness ==
    /\ result # <<>>
    /\ Len(result[1].clusterEdges) = 2
    /\ result[1].clusters[1].keyFiles # <<>>
    /\ Len(errorLog) = 1
    /\ errorLog[1] = "Cluster validation failed: Edge \"e2\" references unknown target cluster: zz"

CardinalityMessages ==
    {"Schema validation failed: clusters: Array must contain at least 5 element(s)",
     "Schema validation failed: clusters: Array must contain at most 12 element(s)"}

\* C5: an answer with fewer than 5 or more than 12 clusters is a failed attempt,
\* and no returned graph has a number of clusters outside 5..12.
C5_ClusterCountWithinFiveToTwelve ==
    /\ result # <<>> => Len(result[1].clusters) \in 5..12
    /\ (response.kind = "json" /\ "clusters" \in response.data.keys
        /\ Len(response.data.clusters) \notin 5..12) =>
          /\ result = <<>>
          /\ Len(errorLog) >= 1
          /\ Last(errorLog) \in CardinalityMessages

\* 4 clusters rejected, 13 clusters rejected, 12 clusters returned
C5_Witness ==
    /\ Len(errorLog) = 2
    /\ errorLog[1] = "Schema validation failed: clusters: Array must contain at least 5 element(s)"
    /\ errorLog[2] = "Schema validation failed: clusters: Array must contain at most 12 element(s)"
    /\ result # <<>>
    /\ Len(result[1].clusters) = 12

(***************************************************************************)
(* Execution traces: TraceComponentExecutionToolHandler.execute,           *)
(* buildAnimatedEdges, ExecutionTraceStorageService.                       *)
(***************************************************************************)
MaxSteps == 4

\* Array.prototype.find on clusterEdges: the first edge from source to target
\* (<<>> when there is none)
RECURSIVE FindEdge(_, _, _)
FindEdge(edges, source, target) ==
    IF Len(edges) = 0 THEN <<>>
    ELSE IF Head(edges).source = source /\ Head(edges).target = target THEN <<Head(edges)>>
    ELSE FindEdge(Tail(edges), source, target)

defaultDurationMs == 1000

AnimatedEdgeZeroBased(edgeId, order) ==
    [edgeId |-> edgeId, animationOrder |-> order - 1, durationMs |-> defaultDurationMs]

AnimatedEdge(edgeId, order) ==
    [edgeId |-> edgeId, animationOrder |-> order, durationMs |-> defaultDurationMs]

\* the loop of buildAnimatedEdges, for (let i = from; i < steps.length - 1; i++),
\* with i 0-based as in the code
RECURSIVE AnimatedEdgesFrom(_, _, _)
AnimatedEdgesFrom(steps, baseGraph, i) ==
    IF i >= Len(steps) - 1 THEN <<>>
    ELSE LET edge == FindEdge(baseGraph.clusterEdges,
                              steps[i + 1].componentId, steps[i + 2].componentId)
         IN  (IF edge # <<>> THEN <<AnimatedEdge(edge[1].id, i + 1)>> ELSE <<>>)
             \o AnimatedEdgesFrom(steps, baseGraph, i + 1)

buildAnimatedEdges(steps, baseGraph) == AnimatedEdgesFrom(steps, baseGraph, 0)

\* ExecutionTraceStorageService.generateTraceId: `trace_${timestamp}_${random}`
generateTraceId(now, random) == "trace_" \o IndexText[now + 1] \o "_" \o random

\* ExecutionTraceStorageService.saveExecutionTrace: the id the document gets
SavedTraceId(trace, now, random) ==
    IF trace.id # "" THEN trace.id ELSE generateTraceId(now, random)

\* ExecutionTraceStorageService.saveExecutionTrace: the store after the write
saveExecutionTrace(store, trace, now, random) ==
    LET id == SavedTraceId(trace, now, random)
    IN  (id :> [trace EXCEPT !.id = id]) @@ store

\* ArchitectureDiagramStorageService.loadClusterGraph: <<graph>>, or <<>> for null
loadClusterGraph(store, id) == IF id \in DOMAIN store THEN <<store[id]>> ELSE <<>>

StepNumberText(step) == IndexText[step.stepNumber + 1]

\* validateTrace without its loop over the transitions
validateTraceWithoutTransitions(trace, baseGraph) ==
    LET validClusterIds == Dedup([i \in 1..Len(baseGraph.clusters) |-> baseGraph.clusters[i].id])
        errors == SelectSeq(trace.steps, LAMBDA step : step.componentId \notin Range(validClusterIds))
    IN  [valid |-> Len(errors) = 0,
         errors |-> [i \in 1..Len(errors) |-> "Step " \o StepNumberText(errors[i])],
         warnings |-> <<>>]

\* ExecutionTraceStorageService.validateTrace
validateTrace(trace, baseGraph) ==
    LET validClusterIds == Dedup([i \in 1..Len(baseGraph.clusters) |-> baseGraph.clusters[i].id])
        stepErrors(step) ==
            IF step.componentId \in Range(validClusterIds) THEN <<>>
            ELSE <<"Step " \o StepNumberText(step) \o ": Invalid componentId \""
                   \o step.componentId \o "\". Valid IDs: " \o Join(validClusterIds, ", ")>>
        transitionWarnings(i) ==
            LET currentStep == trace.steps[i]
                nextStep == trace.steps[i + 1]
            IN  IF currentStep.transitionTo = "" THEN <<>>
                ELSE (IF currentStep.transitionTo # nextStep.componentId
                      THEN <<"Step " \o StepNumberText(currentStep) \o ": transitionTo \""
                             \o currentStep.transitionTo
                             \o "\" does not match next step's componentId \""
                             \o nextStep.componentId \o "\"">>
                      ELSE <<>>)
                     \o (IF FindEdge(baseGraph.clusterEdges, currentStep.componentId,
                                     nextStep.componentId) = <<>>
                         THEN <<"Step " \o StepNumberText(currentStep)
                                \o ": No direct edge from \"" \o currentStep.componentId
                                \o "\" to \"" \o nextStep.componentId
                                \o "\". Relationship may be indirect or inferred.">>
                         ELSE <<>>)
        errors == Flatten([i \in 1..Len(trace.steps) |-> stepErrors(trace.steps[i])])
        warnings == Flatten([i \in 1..(Len(trace.steps) - 1) |-> transitionWarnings(i)])
    IN  [valid |-> Len(errors) = 0, errors |-> errors, warnings |-> warnings]

(***************************************************************************)
(* Inputs of trace_component_execution.                                    *)
(***************************************************************************)
StepIds == {ClusterId(1), ClusterId(2), ClusterId(3), UnknownId}

ComponentIdLists == UNION {[1..n -> StepIds] : n \in 1..MaxSteps}

\* steps over the component ids `ids`; transitionTo names the next step's
\* component ("agree"), a different one ("disagree"), and is null on the last step
StepList(ids, mode) ==
    [i \in 1..Len(ids) |->
        [stepNumber |-> i,
         componentId |-> ids[i],
         transitionTo |-> IF i = Len(ids) THEN ""
                          ELSE IF mode = "agree" THEN ids[i + 1]
                          ELSE UnknownId]]

StepLists == {StepList(ids, mode) : ids \in ComponentIdLists, mode \in {"agree", "disagree"}}

StepsParam(kind, steps) == [kind |-> kind, steps |-> steps]

Request(baseDiagramId, entryPoint, stepsParam, cwd) ==
    [base_diagram_id |-> baseDiagramId, entry_point |-> entryPoint,
     execution_steps |-> stepsParam, cwd |-> cwd]

NoRequest == Request("", "", StepsParam("missing", <<>>), "")

StoredDiagramId == generateClusterGraphId(1, "k3x9q1")
AbsentDiagramId == generateClusterGraphId(2, "p0d7zz")
EntryPoint == "POST /api/users"
Workspace == "/ws"

TraceRequests ==
    {Request(d, EntryPoint, StepsParam("array", steps), Workspace) :
        d \in {StoredDiagramId, AbsentDiagramId}, steps \in StepLists}
    \cup {Request(StoredDiagramId, EntryPoint, StepsParam(k, <<>>), Workspace) :
            k \in {"missing", "badJson", "notArray", "array"}}
    \cup {Request("", EntryPoint, StepsParam("array", StepList(<<ClusterId(1)>>, "agree")),
                  Workspace),
          Request(StoredDiagramId, "", StepsParam("array", StepList(<<ClusterId(1)>>, "agree")),
                  Workspace),
          Request(StoredDiagramId, EntryPoint,
                  StepsParam("array", StepList(<<ClusterId(1)>>, "agree")), "")}

\* the cluster graphs a diagram store may hold: graphs clusterArchitecture returned
FullInventory == CHOOSE inv \in Inventories : Len(inv.files) = 3

StoredGraphs ==
    {ReturnedGraph(AnswerData(FullInventory, MinClusters, ds), FullInventory, 1, "k3x9q1") :
        ds \in {{}, {"parallelEdge"}, {"duplicateId"}}}

TraceNames == {"User Signup Flow"}

ToolError(text) == [status |-> "toolError", text |-> text]
ToolResult(text) == [status |-> "toolResult", text |-> text]
MissingParamError(param) == [status |-> "missingParamError", text |-> <<param>>]
NoReply == [status |-> "none", text |-> <<>>]

\* an earlier trace of the stored diagram
EarlierTrace ==
    [id |-> generateTraceId(1, "k3x9q1"),
     baseDiagramId |-> StoredDiagramId,
     entryPoint |-> "GET /api/health",
     name |-> "Health Check Flow",
     steps |-> StepList(<<ClusterId(1)>>, "agree"),
     highlightedComponents |-> <<ClusterId(1)>>,
     animatedEdges |-> <<>>,
     metadata |-> [timestamp |-> 1, totalSteps |-> 1, componentsInvolved |-> 1]]

EmptyStore == [id \in {} |-> NoReply]

TraceStart ==
    /\ \E g \in StoredGraphs : diagrams = (g.id :> g)
    /\ traces \in {EmptyStore, (EarlierTrace.id :> EarlierTrace)}
    /\ tracePc = "invoked"
    /\ request = NoRequest
    /\ reply = NoReply
    /\ consecutiveMistakeCount = 1

(***************************************************************************)
(* TraceComponentExecutionToolHandler.execute.  Texts that interpolate     *)
(* values are kept as the list of their segments, in order.                *)
(***************************************************************************)
\* join(sep) of segment lists: the parts with sep between them
RECURSIVE JoinSegments(_, _)
JoinSegments(parts, sep) ==
    IF Len(parts) = 0 THEN <<>>
    ELSE IF Len(parts) = 1 THEN parts[1]
    ELSE parts[1] \o <<sep>> \o JoinSegments(Tail(parts), sep)

ValidClusterIds(baseGraph) ==
    Dedup([i \in 1..Len(baseGraph.clusters) |-> baseGraph.clusters[i].id])

\* checks the first step only
InvalidComponentsFirstStepOnly(steps, baseGraph) ==
    IF steps[1].componentId \notin Range(ValidClusterIds(baseGraph))
    THEN <<steps[1].componentId>>
    ELSE <<>>

\* the loop that collects invalidComponents
InvalidComponents(steps, baseGraph) ==
    LET Unknown(step) == step.componentId \notin Range(ValidClusterIds(baseGraph))
        bad == SelectSeq(steps, Unknown)
    IN  [i \in 1..Len(bad) |-> bad[i].componentId]

InvalidComponentsTextWithoutValidIds(invalidComponents, baseDiagramId, validClusterIds) ==
    <<"Invalid componentId(s): ">>
    \o JoinSegments([i \in 1..Len(invalidComponents) |-> <<invalidComponents[i]>>], ", ")

InvalidComponentsText(invalidComponents, baseDiagramId, validClusterIds) ==
    <<"Invalid componentId(s): ">>
    \o JoinSegments([i \in 1..Len(invalidComponents) |-> <<invalidComponents[i]>>], ", ")
    \o <<"\n\nValid cluster IDs from diagram \"", baseDiagramId, "\":\n">>
    \o JoinSegments([i \in 1..Len(validClusterIds) |-> <<"  - ", validClusterIds[i]>>], "\n")

DiagramNotFoundText(baseDiagramId) ==
    <<"Base diagram not found: ", baseDiagramId,
      "\n\nMake sure you provide a valid diagram ID from a previously generated architecture diagram.">>

\* the ComponentExecutionTrace object built before it is saved (id: "")
BuiltTrace(req, baseGraph, now, name) ==
    LET executionSteps == req.execution_steps.steps
        highlightedComponents ==
            Dedup([i \in 1..Len(executionSteps) |-> executionSteps[i].componentId])
    IN  [id |-> "",
         baseDiagramId |-> req.base_diagram_id,
         entryPoint |-> req.entry_point,
         name |-> name,
         steps |-> executionSteps,
         highlightedComponents |-> highlightedComponents,
         animatedEdges |-> buildAnimatedEdges(executionSteps, baseGraph),
         metadata |-> [timestamp |-> now,
                       totalSteps |-> Len(executionSteps),
                       componentsInvolved |-> Len(highlightedComponents)]]

CreatedText(traceId, trace, warnings) ==
    <<"Execution trace created successfully!\n\nTrace ID: ", traceId,
      "\nEntry Point: ", trace.entryPoint,
      "\nSteps: ", IndexText[Len(trace.steps) + 1],
      "\nComponents Involved: ", IndexText[Len(trace.highlightedComponents) + 1],
      "\n\nThe trace has been saved and will be available for visualization in the architecture diagram viewer.">>
    \o (IF Len(warnings) > 0
        THEN <<"\n\nValidation warnings:\n">>
             \o JoinSegments([i \in 1..Len(warnings) |-> <<"- ", warnings[i]>>], "\n")
        ELSE <<>>)

ParamsPresent(req) ==
    /\ req.base_diagram_id # ""
    /\ req.entry_point # ""
    /\ req.execution_steps.kind # "missing"

StepsUsable(req) ==
    /\ req.execution_steps.kind = "array"
    /\ Len(req.execution_steps.steps) > 0

\* a required parameter is missing
TraceMissingParameter ==
    /\ tracePc = "invoked"
    /\ \E req \in TraceRequests :
          /\ ~ParamsPresent(req)
          /\ request' = req
          /\ reply' = MissingParamError(IF req.base_diagram_id = "" THEN "base_diagram_id"
                                        ELSE IF req.entry_point = "" THEN "entry_point"
                                        ELSE "execution_steps")
    /\ consecutiveMistakeCount' = consecutiveMistakeCount + 1
    /\ tracePc' = "returned"
    /\ UNCHANGED <<diagrams, traces>>
    /\ UNCHANGED outsideTrace

\* config.cwd is empty
TraceNoWorkspaceRoot ==
    /\ tracePc = "invoked"
    /\ \E req \in TraceRequests :
          /\ ParamsPresent(req)
          /\ req.cwd = ""
          /\ request' = req
          /\ reply' = ToolError(<<"No workspace root available">>)
    /\ consecutiveMistakeCount' = 0
    /\ tracePc' = "returned"
    /\ UNCHANGED <<diagrams, traces>>
    /\ UNCHANGED outsideTrace

\* execution_steps is not JSON, not an array, or an empty array
TraceUnusableSteps ==
    /\ tracePc = "invoked"
    /\ \E req \in TraceRequests :
          /\ ParamsPresent(req)
          /\ req.cwd # ""
          /\ ~StepsUsable(req)
          /\ request' = req
          /\ reply' = ToolError(
                IF req.execution_steps.kind = "badJson"
                THEN <<"Failed to parse execution_steps JSON: ", JsonSyntaxErrorText,
                       "\n\nMake sure execution_steps is valid JSON array format.">>
                ELSE IF req.execution_steps.kind = "notArray"
                THEN <<"execution_steps must be a JSON array. Got: ", "object">>
                ELSE <<"execution_steps array cannot be empty. Provide at least one step.">>)
    /\ consecutiveMistakeCount' = 0
    /\ tracePc' = "returned"
    /\ UNCHANGED <<diagrams, traces>>
    /\ UNCHANGED outsideTrace

\* loadClusterGraph returned null
TraceBaseDiagramNotFound ==
    /\ tracePc = "invoked"
    /\ \E req \in TraceRequests :
          /\ ParamsPresent(req)
          /\ req.cwd # ""
          /\ StepsUsable(req)
          /\ loadClusterGraph(diagrams, req.base_diagram_id) = <<>>
          /\ request' = req
          /\ reply' = ToolError(DiagramNotFoundText(req.base_diagram_id))
    /\ consecutiveMistakeCount' = 0
    /\ tracePc' = "returned"
    /\ UNCHANGED <<diagrams, traces>>
    /\ UNCHANGED outsideTrace

\* some step's componentId is no cluster id of the base graph
TraceInvalidComponentIds ==
    /\ tracePc = "invoked"
    /\ \E req \in TraceRequests :
          /\ ParamsPresent(req)
          /\ req.cwd # ""
          /\ StepsUsable(req)
          /\ loadClusterGraph(diagrams, req.base_diagram_id) # <<>>
          /\ LET baseGraph == loadClusterGraph(diagrams, req.base_diagram_id)[1]
                 invalidComponents == InvalidComponents(req.execution_steps.steps, baseGraph)
             IN  /\ Len(invalidComponents) > 0
                 /\ reply' = ToolError(InvalidComponentsText(invalidComponents,
                                                             req.base_diagram_id,
                                                             ValidClusterIds(baseGraph)))
          /\ request' = req
    /\ consecutiveMistakeCount' = 0
    /\ tracePc' = "returned"
    /\ UNCHANGED <<diagrams, traces>>
    /\ UNCHANGED outsideTrace

\* the trace is built, named, saved, and checked for warnings
TraceCreated ==
    /\ tracePc = "invoked"
    /\ \E req \in TraceRequests :
          /\ ParamsPresent(req)
          /\ req.cwd # ""
          /\ StepsUsable(req)
          /\ loadClusterGraph(diagrams, req.base_diagram_id) # <<>>
          /\ LET baseGraph == loadClusterGraph(diagrams, req.base_diagram_id)[1]
             IN  /\ Len(InvalidComponents(req.execution_steps.steps, baseGraph)) = 0
                 /\ \E now \in Clock, random \in RandomSuffixes,
                       name \in TraceNames \cup {req.entry_point} :
                       LET trace == BuiltTrace(req, baseGraph, now, name)
                           traceId == SavedTraceId(trace, now, random)
                           validation == validateTrace(trace, baseGraph)
                       IN  /\ traces' = saveExecutionTrace(traces, trace, now, random)
                           /\ reply' = ToolResult(CreatedText(traceId, trace,
                                                              validation.warnings))
          /\ request' = req
    /\ consecutiveMistakeCount' = 0
    /\ tracePc' = "returned"
    /\ UNCHANGED diagrams
    /\ UNCHANGED outsideTrace

TraceNext ==
    \/ TraceMissingParameter
    \/ TraceNoWorkspaceRoot
    \/ TraceUnusableSteps
    \/ TraceBaseDiagramNotFound
    \/ TraceInvalidComponentIds
    \/ TraceCreated

(***************************************************************************)
(* generateInventory: scan, per-file analysis, dependency aggregation.     *)
(* Paths are workspace-relative texts; an absolute path is the pair        *)
(* <<workspaceRoot, relative path>>. Every file of the modelled workspaces *)
(* lies in the workspace root directory, so path.resolve(dirname(file),    *)
(* specifier) is the root joined with the specifier's own path.            *)
(***************************************************************************)
DEFAULT_EXTENSIONS == <<".ts", ".tsx", ".js", ".jsx">>

defaultBatchSize == 50

maxFileSize == 5 * 1024 * 1024

NoFilesFoundText == "No TypeScript/JavaScript files found in workspace"

AbsolutePath(root, rel) == <<root, rel>>

\* path.relative(workspaceRoot, absolutePath) for a path below the root
pathRelative(root, absolutePath) == absolutePath[2]

\* an import declaration of a source text: `target` is what
\* path.resolve(fromDir, moduleSpecifier) appends to the workspace root
ImportDeclaration(moduleSpecifier, startsWithDotOrSlash, target, namedImports, defaultImport, isTypeOnly) ==
    [moduleSpecifier |-> moduleSpecifier, startsWithDotOrSlash |-> startsWithDotOrSlash,
     target |-> target, namedImports |-> namedImports,
     defaultImport |-> defaultImport, isTypeOnly |-> isTypeOnly]

\* a file on disk: `ignored` says a DEFAULT_EXCLUDE_PATTERNS / .gitignore entry
\* matches it, `readable` that fs.stat and the read of its text succeed, `parses`
\* that ts-morph builds its source file without throwing
DiskFile(path, ext, ignored, readable, size, parses, lines, exports, imports) ==
    [path |-> path, ext |-> ext, ignored |-> ignored, readable |-> readable, size |-> size,
     parses |-> parses, linesOfCode |-> lines, exports |-> exports, imports |-> imports]

ScanOptions(batchSize) == [batchSize |-> batchSize]

\* options = {}: batchSize undefined, which `||` treats like 0
NoScanOptions == ScanOptions(0)

DiskPaths(d) == {d[i].path : i \in 1..Len(d)}

\* scanWorkspace: the files globby lists for the extensions, minus the ignored
scanWorkspace(root, d) ==
    LET eligible(f) == f.ext \in Range(DEFAULT_EXTENSIONS) /\ ~f.ignored
        kept == SelectSeq(d, eligible)
    IN  [i \in 1..Len(kept) |-> AbsolutePath(root, kept[i].path)]

resolveExtensions == <<".ts", ".tsx", ".js", ".jsx", ".d.ts">>

\* the first candidate that exists on disk as a file, or <<>>
RECURSIVE FirstExisting(_, _, _)
FirstExisting(root, candidates, d) ==
    IF Len(candidates) = 0 THEN <<>>
    ELSE IF Head(candidates) \in DiskPaths(d) THEN AbsolutePath(root, Head(candidates))
    ELSE FirstExisting(root, Tail(candidates), d)

\* resolveImportPath: <<>> stands for undefined
resolveImportPath(decl, root, d) ==
    IF ~decl.startsWithDotOrSlash THEN <<>>
    ELSE LET asIs == [i \in 1..(Len(resolveExtensions) + 1) |->
                         IF i = 1 THEN decl.target
                         ELSE decl.target \o resolveExtensions[i - 1]]
             index == [i \in 1..Len(resolveExtensions) |->
                         decl.target \o "/index" \o resolveExtensions[i]]
         IN  FirstExisting(root, asIs \o index, d)

\* extractImports: one ImportRecord per import declaration
extractImports(file, root, d) ==
    [i \in 1..Len(file.imports) |->
        LET decl == file.imports[i]
        IN  [source |-> decl.moduleSpecifier,
             resolvedPath |-> resolveImportPath(decl, root, d),
             importedSymbols |-> decl.namedImports
                                 \o (IF decl.defaultImport THEN <<"default">> ELSE <<>>),
             isTypeOnly |-> decl.isTypeOnly]]

DiskFileAt(absolutePath, d) ==
    CHOOSE f \in Range(d) : f.path = absolutePath[2]

\* the FileRecord that analyzeFile builds
FileRecord(file, absolutePath, root, d) ==
    [path |-> pathRelative(root, absolutePath),
     size |-> file.size,
     linesOfCode |-> file.linesOfCode,
     exports |-> file.exports,
     imports |-> extractImports(file, root, d),
     language |-> IF file.ext \in {".ts", ".tsx"} THEN "typescript" ELSE "javascript"]

\* analyzeFile without its size check
analyzeFileWithoutSizeCeiling(absolutePath, root, d) ==
    LET file == DiskFileAt(absolutePath, d)
    IN  IF ~file.readable \/ ~file.parses THEN <<>>
        ELSE <<FileRecord(file, absolutePath, root, d)>>

\* analyzeFile: <<>> stands for { record: null }, <<r>> for { record: r }; a
\* throw of fs.stat or of ts-morph is caught and gives { record: null }
analyzeFile(absolutePath, root, d) ==
    LET file == DiskFileAt(absolutePath, d)
    IN  IF ~file.readable THEN <<>>
        ELSE IF file.size > maxFileSize THEN <<>>
        ELSE IF ~file.parses THEN <<>>
        ELSE <<FileRecord(file, absolutePath, root, d)>>

\* the raw edges of one FileRecord (the loop over result.record.imports)
RawDependencies(record, root) ==
    LET resolved(imp) == imp.resolvedPath # <<>>
        kept == SelectSeq(record.imports, resolved)
    IN  [i \in 1..Len(kept) |->
            [from |-> record.path,
             to |-> pathRelative(root, kept[i].resolvedPath),
             count |-> 1,
             types |-> Dedup(kept[i].importedSymbols)]]

\* the key of the aggregation Map
DependencyKey(dep) == dep.from \o ":::" \o dep.to

\* dep.types.forEach(t => { if (!importedTypes.includes(t)) importedTypes.push(t) })
RECURSIVE MergeTypes(_, _)
MergeTypes(importedTypes, types) ==
    IF Len(types) = 0 THEN importedTypes
    ELSE MergeTypes(IF Head(types) \in Range(importedTypes) THEN importedTypes
                    ELSE Append(importedTypes, Head(types)),
                    Tail(types))

\* the loop of aggregateDependencies over a Map kept as its entries in insertion order
RECURSIVE AggregateInto(_, _)
AggregateInto(aggregated, dependencies) ==
    IF Len(dependencies) = 0 THEN aggregated
    ELSE LET dep == Head(dependencies)
             key == DependencyKey(dep)
             has == \E k \in 1..Len(aggregated) : aggregated[k].key = key
             at == CHOOSE k \in 1..Len(aggregated) : aggregated[k].key = key
             merged ==
                 IF has
                 THEN [aggregated EXCEPT
                          ![at].value.count = @ + dep.count,
                          ![at].value.importedTypes = MergeTypes(@, dep.types)]
                 ELSE Append(aggregated,
                             [key |-> key,
                              value |-> [from |-> dep.from, to |-> dep.to,
                                         count |-> dep.count,
                                         importedTypes |-> dep.types]])
         IN  AggregateInto(merged, Tail(dependencies))

aggregateDependencies(dependencies) ==
    LET aggregated == AggregateInto(<<>>, dependencies)
    IN  [k \in 1..Len(aggregated) |-> aggregated[k].value]

RECURSIVE SumLinesOfCode(_)
SumLinesOfCode(records) ==
    IF Len(records) = 0 THEN 0
    ELSE Head(records).linesOfCode + SumLinesOfCode(Tail(records))

RepoInventory(records, dependencyEdges, now, root, durationMs) ==
    [files |-> records,
     dependencies |-> dependencyEdges,
     metadata |-> [timestamp |-> now,
                   workspaceRoot |-> root,
                   fileCount |-> Len(records),
                   totalLOC |-> SumLinesOfCode(records),
                   analyzedExtensions |-> DEFAULT_EXTENSIONS,
                   durationMs |-> durationMs]]

(***************************************************************************)
(* Workspaces analysed: up to four files in the workspace root. Two of the *)
(* paths contain the text ":::", which a POSIX file name may.              *)
(***************************************************************************)
PathA == "a.ts"
PathB == "b.ts"
PathBX == "b.ts:::x.ts"
PathXA == "x.ts:::a.ts"

ImportFromA(namedImports, isTypeOnly) ==
    ImportDeclaration("./a", TRUE, "a", namedImports, FALSE, isTypeOnly)

ImportReact == ImportDeclaration("react", FALSE, "", <<>>, TRUE, FALSE)

ImportFromXA == ImportDeclaration("./x.ts:::a", TRUE, "x.ts:::a", <<"qux">>, FALSE, FALSE)

ImportMissing == ImportDeclaration("./gone", TRUE, "gone", <<"gone">>, FALSE, FALSE)

SourceFile(path, parses, imports) ==
    DiskFile(path, ".ts", FALSE, TRUE, 1200, parses, 10,
             <<[name |-> "foo", kind |-> "function", isDefault |-> FALSE]>>, imports)

\* a source file that an exclude pattern or .gitignore entry matches
IgnoredFile(path) ==
    DiskFile(path, ".ts", TRUE, TRUE, 1200, TRUE, 10,
             <<[name |-> "foo", kind |-> "function", isDefault |-> FALSE]>>, <<>>)

\* a generated source file above the size ceiling of analyzeFile
LargeFile(path) ==
    DiskFile(path, ".ts", FALSE, TRUE, maxFileSize + 1, TRUE, 10,
             <<[name |-> "foo", kind |-> "function", isDefault |-> FALSE]>>, <<>>)

\* a source file whose fs.stat fails (permissions, removed after the scan)
UnreadableFile(path) ==
    DiskFile(path, ".ts", FALSE, FALSE, 1200, TRUE, 10,
             <<[name |-> "foo", kind |-> "function", isDefault |-> FALSE]>>, <<>>)

\* what each path may hold; <<>> stands for "no such file"
FileVariants ==
    [p \in {PathA, PathB, PathBX, PathXA} |->
        IF p = PathA
        THEN {<<>>, <<SourceFile(PathA, TRUE, <<>>)>>, <<SourceFile(PathA, FALSE, <<>>)>>,
              <<IgnoredFile(PathA)>>, <<LargeFile(PathA)>>}
        ELSE IF p = PathB
        THEN {<<>>,
              <<SourceFile(PathB, TRUE, <<ImportFromA(<<"foo">>, FALSE)>>)>>,
              <<SourceFile(PathB, TRUE, <<ImportFromA(<<"foo">>, FALSE), ImportReact,
                                          ImportFromA(<<"bar", "foo">>, FALSE)>>)>>,
              <<SourceFile(PathB, TRUE, <<ImportFromXA, ImportMissing>>)>>,
              <<SourceFile(PathB, TRUE, <<ImportFromA(<<"Foo">>, TRUE),
                                          ImportFromA(<<"foo", "foo">>, FALSE)>>)>>}
        ELSE IF p = PathBX
        THEN {<<>>, <<SourceFile(PathBX, TRUE, <<ImportFromA(<<"baz">>, FALSE)>>)>>}
        ELSE {<<>>, <<SourceFile(PathXA, TRUE, <<>>)>>, <<UnreadableFile(PathXA)>>}]

Disks ==
    {a \o b \o bx \o xa : a \in FileVariants[PathA], b \in FileVariants[PathB],
                          bx \in FileVariants[PathBX], xa \in FileVariants[PathXA]}

BatchSizes == {0, 1, 2}

\* ScanOptions.batchSize is any number: a negative one is passed on as it is
AnyBatchSizes == BatchSizes \cup {-1}

\* iterations of the batch loop followed once its loop variable is negative
MaxIdleRounds == 2

InventoryStart ==
    /\ disk \in Disks
    /\ scanOptions \in {ScanOptions(b) : b \in BatchSizes}
    /\ progressCallback \in BOOLEAN
    /\ invPc = "invoked"
    /\ scannedFiles = <<>>
    /\ cursor = 0
    /\ fileRecords = <<>>
    /\ allDependencies = <<>>
    /\ inFlight = {}
    /\ settled = {}
    /\ progress = <<>>
    /\ analysis = <<>>
    /\ invThrown = ""
    /\ abandoned = <<>>

\* the same call with any number as batchSize
AnyBatchSizeStart ==
    /\ disk \in Disks
    /\ scanOptions \in {ScanOptions(b) : b \in AnyBatchSizes}
    /\ progressCallback \in BOOLEAN
    /\ invPc = "invoked"
    /\ scannedFiles = <<>>
    /\ cursor = 0
    /\ fileRecords = <<>>
    /\ allDependencies = <<>>
    /\ inFlight = {}
    /\ settled = {}
    /\ progress = <<>>
    /\ analysis = <<>>
    /\ invThrown = ""
    /\ abandoned = <<>>

\* options.batchSize || 50
batchSize == IF scanOptions.batchSize = 0 THEN defaultBatchSize ELSE scanOptions.batchSize

\* the whole rest of `files` at once: no batching
BatchIndicesUnbounded(i, size, total) == (i + 1)..total

\* Array.prototype.slice resolves an index k of an array of `total` elements: a
\* negative k counts from the end, and the result is clamped to 0..total
SliceIndex(k, total) ==
    IF k < 0 THEN (IF total + k < 0 THEN 0 ELSE total + k) ELSE Min(k, total)

\* the indices (from 1) of files.slice(i, Math.min(i + batchSize, files.length))
BatchIndices(i, size, total) ==
    (SliceIndex(i, total) + 1)..SliceIndex(Min(i + size, total), total)

\* Step 1 when the scan lists nothing: the call throws
ScanFindsNoFiles ==
    /\ invPc = "invoked"
    /\ Len(scanWorkspace(Workspace, disk)) = 0
    /\ invPc' = "thrown"
    /\ invThrown' = NoFilesFoundText
    /\ UNCHANGED <<disk, scanOptions, progressCallback, scannedFiles, cursor, fileRecords,
                   allDependencies, inFlight, settled, progress, analysis>>
    /\ UNCHANGED <<abandoned, outsideInventory>>

\* Steps 1 and 2: the scan lists files and the ts-morph project is created
ScanFindsFiles ==
    /\ invPc = "invoked"
    /\ Len(scanWorkspace(Workspace, disk)) > 0
    /\ scannedFiles' = scanWorkspace(Workspace, disk)
    /\ invPc' = "analyzing"
    /\ UNCHANGED <<disk, scanOptions, progressCallback, cursor, fileRecords, allDependencies,
                   inFlight, settled, progress, analysis, invThrown>>
    /\ UNCHANGED <<abandoned, outsideInventory>>

\* the head of a loop iteration: batch.map starts analyzeFile for every file of
\* the batch, each running up to its first await, and Promise.all is awaited
StartBatch ==
    /\ invPc = "analyzing"
    /\ cursor < Len(scannedFiles)
    /\ cursor >= -MaxIdleRounds
    /\ inFlight' = BatchIndices(cursor, batchSize, Len(scannedFiles))
    /\ invPc' = "awaiting"
    /\ UNCHANGED <<disk, scanOptions, progressCallback, scannedFiles, cursor, fileRecords,
                   allDependencies, settled, progress, analysis, invThrown>>
    /\ UNCHANGED <<abandoned, outsideInventory>>

\* one analyzeFile promise settles (it never rejects); the files of a batch
\* settle in any order
FileSettles ==
    /\ invPc = "awaiting"
    /\ \E i \in inFlight :
          /\ inFlight' = inFlight \ {i}
          /\ settled' = settled \cup {i}
    /\ UNCHANGED <<disk, scanOptions, progressCallback, invPc, scannedFiles, cursor,
                   fileRecords, allDependencies, progress, analysis, invThrown>>
    /\ UNCHANGED <<abandoned, outsideInventory>>

\* the rest of the iteration once Promise.all resolved: the results are taken
\* in the batch's order, progress is reported, `i += batchSize`
CompleteBatch ==
    /\ invPc = "awaiting"
    /\ inFlight = {}
    /\ LET upTo == Min(cursor + batchSize, Len(scannedFiles))
           batch == SubSeq(scannedFiles, SliceIndex(cursor, Len(scannedFiles)) + 1,
                           SliceIndex(upTo, Len(scannedFiles)))
           batchResults == [k \in 1..Len(batch) |-> analyzeFile(batch[k], Workspace, disk)]
           records == Flatten(batchResults)
       IN  /\ fileRecords' = fileRecords \o records
           /\ allDependencies' =
                  allDependencies
                  \o Flatten([k \in 1..Len(records) |-> RawDependencies(records[k], Workspace)])
           /\ progress' = IF progressCallback
                          THEN Append(progress, <<upTo, Len(scannedFiles)>>)
                          ELSE progress
           /\ cursor' = cursor + batchSize
    /\ invPc' = "analyzing"
    /\ UNCHANGED <<disk, scanOptions, progressCallback, scannedFiles, inFlight, settled,
                   analysis, invThrown>>
    /\ UNCHANGED <<abandoned, outsideInventory>>

\* Step 4 and the return: aggregate the raw edges, assemble the RepoInventory
ReturnInventory ==
    /\ invPc = "analyzing"
    /\ cursor >= Len(scannedFiles)
    /\ \E now \in Clock : \E durationMs \in 0..(now - 1) :
          analysis' = <<RepoInventory(fileRecords, aggregateDependencies(allDependencies),
                                      now, Workspace, durationMs)>>
    /\ invPc' = "returned"
    /\ UNCHANGED <<disk, scanOptions, progressCallback, scannedFiles, cursor, fileRecords,
                   allDependencies, inFlight, settled, progress, invThrown>>
    /\ UNCHANGED <<abandoned, outsideInventory>>

\* the caller stops waiting for the promise while generateInventory is suspended
\* in an await; the function takes no AbortSignal and reads no flag, so nothing of
\* the call's own state changes
CallerAbandons ==
    /\ invPc \in {"invoked", "awaiting"}
    /\ abandoned = <<>>
    /\ abandoned' = <<invPc, cursor>>
    /\ UNCHANGED <<disk, scanOptions, progressCallback, invPc, scannedFiles, cursor,
                   fileRecords, allDependencies, inFlight, settled, progress, analysis,
                   invThrown>>
    /\ UNCHANGED outsideInventory

InventoryNext ==
    ScanFindsNoFiles \/ ScanFindsFiles \/ StartBatch \/ FileSettles \/ CompleteBatch
    \/ ReturnInventory \/ CallerAbandons

(***************************************************************************)
(* aggregateDependencies on the raw edges of one workspace in two orders:  *)
(* the order of the raw edges is the order in which globby lists the files *)
(* and in which each file lists its imports.                               *)
(***************************************************************************)
MaxRawEdges == 3

RawEdge(from, to, types) == [from |-> from, to |-> to, count |-> 1, types |-> types]

RawEdgeChoices ==
    {RawEdge(PathB, PathA, <<"foo">>),
     RawEdge(PathB, PathA, <<"bar", "foo">>),
     RawEdge(PathA, PathB, <<>>),
     RawEdge(PathB, PathXA, <<"qux">>),
     RawEdge(PathBX, PathA, <<"baz">>)}

RawEdgeLists == UNION {[1..n -> RawEdgeChoices] : n \in 0..MaxRawEdges}

\* the bijections of 1..n
Reorderings(n) ==
    {f \in [1..n -> 1..n] : \A i \in 1..n : \A j \in 1..n : i # j => f[i] # f[j]}

AggregateStart ==
    /\ rawEdges \in RawEdgeLists
    /\ reordered = <<>>
    /\ edgesOnce = <<>>
    /\ edgesAgain = <<>>
    /\ aggPc = "invoked"

\* the raw edges are aggregated in the order given
AggregateOnce ==
    /\ aggPc = "invoked"
    /\ edgesOnce' = <<aggregateDependencies(rawEdges)>>
    /\ aggPc' = "once"
    /\ UNCHANGED <<rawEdges, reordered, edgesAgain>>
    /\ UNCHANGED outsideAggregate

\* the same raw edges are aggregated in another order
AggregateReordered ==
    /\ aggPc = "once"
    /\ \E f \in Reorderings(Len(rawEdges)) :
          /\ reordered' = [i \in 1..Len(rawEdges) |-> rawEdges[f[i]]]
          /\ edgesAgain' = <<aggregateDependencies(reordered')>>
    /\ aggPc' = "twice"
    /\ UNCHANGED <<rawEdges, edgesOnce>>
    /\ UNCHANGED outsideAggregate

AggregateNext == AggregateOnce \/ AggregateReordered

(***************************************************************************)
(* generate_architecture_diagram: the analysis run of the tool handler and *)
(* the inventory cache.  ArchitectureDiagramStorageService is not part of  *)
(* the sources at hand; its four cache operations follow the specification *)
(* of the store.  The webview may invalidate the cache at any moment.      *)
(***************************************************************************)
MaxRuns == 2
MaxRevisions == 3

\* the source files of the workspace at a revision; every third revision has none
FilesAtRevision(rev) ==
    IF rev % 3 = 1 THEN <<ControllerFile, ServiceFile, RepositoryFile>>
    ELSE IF rev % 3 = 2 THEN <<ControllerFile, ServiceFile>>
    ELSE <<>>

\* analysisService.generateInventory(workspace, {}) at a revision that has files
ScannedInventory(rev, now) ==
    Inventory(FilesAtRevision(rev),
              <<Dep(ControllerFile.path, ServiceFile.path, 1, <<"UserService">>)>>,
              now, Workspace)

\* a cache document: `content` is <<inv>> or, when it cannot be read back, <<>>
CacheDocument(content) == [content |-> content]

hasInventoryCache(cache) == cache # <<>>

\* null (<<>>) when the document is absent or cannot be read back
loadInventoryCache(cache) == IF cache = <<>> THEN <<>> ELSE cache[1].content

saveInventoryCache(inv) == <<CacheDocument(<<inv>>)>>

DeletedCache == <<>>

UseCacheParams == {"", "true", "false", "False"}

\* the parameter is ignored: the cache is always consulted
useCacheFlagAlways(param) == TRUE

\* useCache !== "false"
useCacheFlag(param) == param # "false"

\* the history of a run: whether it began after an invalidation, the cache
\* document it loaded, whether it scanned, the inventory it works on, the
\* cache document it stored
Run(startInvalidated, checkedCache, source, fromCache, scanned, inv, stored) ==
    [startInvalidated |-> startInvalidated, checkedCache |-> checkedCache, source |-> source,
     fromCache |-> fromCache, scanned |-> scanned, inventory |-> inv, stored |-> stored]

NoRun == Run(FALSE, FALSE, <<>>, FALSE, FALSE, <<>>, <<>>)

AnalysisFailedText(errorMsg) == <<"Failed to analyze workspace: ", errorMsg>>

GenerateStart ==
    /\ workspaceRev = 1
    /\ cacheDoc \in {<<>>, <<CacheDocument(<<>>)>>, saveInventoryCache(ScannedInventory(1, 1))}
    /\ invalidated = FALSE
    /\ genPc = "ready"
    /\ useCache = ""
    /\ run = NoRun
    /\ runs = 0
    /\ diagramLog = <<>>
    /\ genReply = ""

\* the tool is invoked and the user approves (or auto-approval applies)
RunApproved ==
    /\ genPc \in {"ready", "replied"}
    /\ runs < MaxRuns
    /\ \E param \in UseCacheParams : useCache' = param
    /\ run' = [NoRun EXCEPT !.startInvalidated = invalidated]
    /\ runs' = runs + 1
    /\ genPc' = "approved"
    /\ genReply' = ""
    /\ UNCHANGED <<workspaceRev, cacheDoc, invalidated, diagramLog>>
    /\ UNCHANGED outsideGenerate

\* the tool is invoked and the user declines: formatResponse.toolDenied()
RunDenied ==
    /\ genPc \in {"ready", "replied"}
    /\ runs < MaxRuns
    /\ \E param \in UseCacheParams : useCache' = param
    /\ run' = [NoRun EXCEPT !.startInvalidated = invalidated]
    /\ runs' = runs + 1
    /\ genPc' = "replied"
    /\ genReply' = "toolDenied"
    /\ UNCHANGED <<workspaceRev, cacheDoc, invalidated, diagramLog>>
    /\ UNCHANGED outsideGenerate

\* `useCacheFlag && (await storageService.hasInventoryCache())`
CheckCache ==
    /\ genPc = "approved"
    /\ IF useCacheFlag(useCache)
       THEN /\ run' = [run EXCEPT !.checkedCache = TRUE]
            /\ genPc' = IF hasInventoryCache(cacheDoc) THEN "loading" ELSE "scanning"
       ELSE /\ run' = run
            /\ genPc' = "scanning"
    /\ UNCHANGED <<workspaceRev, cacheDoc, invalidated, useCache, runs, diagramLog, genReply>>
    /\ UNCHANGED outsideGenerate

\* `inventory = await storageService.loadInventoryCache()`, then `if (!inventory)`
LoadCache ==
    /\ genPc = "loading"
    /\ LET loaded == loadInventoryCache(cacheDoc)
       IN  IF loaded # <<>>
           THEN /\ run' = [run EXCEPT !.source = cacheDoc, !.fromCache = TRUE,
                                       !.inventory = loaded]
                /\ genPc' = "clustering"
           ELSE /\ run' = run
                /\ genPc' = "scanning"
    /\ UNCHANGED <<workspaceRev, cacheDoc, invalidated, useCache, runs, diagramLog, genReply>>
    /\ UNCHANGED outsideGenerate

\* generateInventory scans the workspace as it is now and returns
ScanWorkspace ==
    /\ genPc = "scanning"
    /\ FilesAtRevision(workspaceRev) # <<>>
    /\ \E now \in Clock :
          run' = [run EXCEPT !.scanned = TRUE,
                             !.inventory = <<ScannedInventory(workspaceRev, now)>>]
    /\ genPc' = "saving"
    /\ UNCHANGED <<workspaceRev, cacheDoc, invalidated, useCache, runs, diagramLog, genReply>>
    /\ UNCHANGED outsideGenerate

\* generateInventory scans the workspace, finds no file and throws; the catch
\* block of the handler answers with a toolError
ScanThrows ==
    /\ genPc = "scanning"
    /\ FilesAtRevision(workspaceRev) = <<>>
    /\ run' = [run EXCEPT !.scanned = TRUE]
    /\ genPc' = "replied"
    /\ genReply' = AnalysisFailedText(NoFilesFoundText)
    /\ UNCHANGED <<workspaceRev, cacheDoc, invalidated, useCache, runs, diagramLog>>
    /\ UNCHANGED outsideGenerate

\* `await storageService.saveInventoryCache(inventory)`
SaveCache ==
    /\ genPc = "saving"
    /\ cacheDoc' = saveInventoryCache(run.inventory[1])
    /\ invalidated' = FALSE
    /\ run' = [run EXCEPT !.stored = cacheDoc']
    /\ genPc' = "clustering"
    /\ UNCHANGED <<workspaceRev, useCache, runs, diagramLog, genReply>>
    /\ UNCHANGED outsideGenerate

\* clusterArchitecture returns a graph: it is saved, explained and reported
ClusteringSucceeds ==
    /\ genPc = "clustering"
    /\ diagramLog' = Append(diagramLog, run.inventory[1])
    /\ genPc' = "replied"
    /\ genReply' = <<"Architecture diagram generated successfully!">>
    /\ UNCHANGED <<workspaceRev, cacheDoc, invalidated, useCache, run, runs>>
    /\ UNCHANGED outsideGenerate

\* clusterArchitecture throws after its last attempt: toolError
ClusteringFails ==
    /\ genPc = "clustering"
    /\ genPc' = "replied"
    /\ genReply' = AnalysisFailedText("LLM clustering failed after 3 attempts")
    /\ UNCHANGED <<workspaceRev, cacheDoc, invalidated, useCache, run, runs, diagramLog>>
    /\ UNCHANGED outsideGenerate

\* the controller's invalidateInventoryCache: the cache document is deleted
InvalidateCache ==
    /\ genPc # "idle"
    /\ cacheDoc' = DeletedCache
    /\ invalidated' = TRUE
    /\ UNCHANGED <<workspaceRev, genPc, useCache, run, runs, diagramLog, genReply>>
    /\ UNCHANGED outsideGenerate

\* the user edits the workspace
EditWorkspace ==
    /\ genPc # "idle"
    /\ workspaceRev < MaxRevisions
    /\ workspaceRev' = workspaceRev + 1
    /\ UNCHANGED <<cacheDoc, invalidated, genPc, useCache, run, runs, diagramLog, genReply>>
    /\ UNCHANGED outsideGenerate

GenerateNext ==
    \/ RunApproved \/ RunDenied \/ CheckCache \/ LoadCache \/ ScanWorkspace \/ ScanThrows
    \/ SaveCache \/ ClusteringSucceeds \/ ClusteringFails \/ InvalidateCache \/ EditWorkspace

(***************************************************************************)
(* The document stores on disk: the controller's saveExecutionTrace, and   *)
(* the listings of ExecutionTraceStorageService and DiagramStorageService. *)
(* A directory is a list of files in readdir order; a file name is the     *)
(* list of its segments, so <<"a", ".json">> is "a.json".                  *)
(***************************************************************************)
MaxSaves == 2

Directory(exists, files) == [exists |-> exists, files |-> files]

MissingDirectory == Directory(FALSE, <<>>)

\* a file: kind "document" holds a JSON document of the right shape, "null"
\* the JSON text `null`, "garbage" text that is no JSON, "unreadable" cannot
\* be read at all
StoredFile(name, kind, doc) == [name |-> name, kind |-> kind, doc |-> doc]

NoCall == [op |-> "none", arg |-> ""]
IdleCall == [op |-> "idle", arg |-> ""]
NoResult == [status |-> "none", value |-> <<>>]
Returned(value) == [status |-> "returned", value |-> value]
Thrown(message) == [status |-> "thrown", value |-> <<message>>]

\* `${id}.json`
DocumentFileName(id) == <<id, ".json">>

\* file.endsWith(".json")
IsJsonFile(file) == Len(file.name) > 0 /\ Last(file.name) = ".json"

\* file.replace(".json", ""): the name without its first ".json"
RECURSIVE WithoutFirstJson(_)
WithoutFirstJson(name) ==
    IF Len(name) = 0 THEN <<>>
    ELSE IF Head(name) = ".json" THEN Tail(name)
    ELSE <<Head(name)>> \o WithoutFirstJson(Tail(name))

FallbackId(file) == Join(WithoutFirstJson(file.name), "")

\* the body of the per-file try block succeeds: the file is read, parsed and
\* its fields are reached
FileYieldsDocument(file) == file.kind = "document"

\* one unreadable file ends the loop: the per-file try / catch left out
JsonDocumentFilesFailFast(dir) ==
    IF \E i \in 1..Len(dir.files) : IsJsonFile(dir.files[i]) /\ ~FileYieldsDocument(dir.files[i])
    THEN <<>>
    ELSE SelectSeq(dir.files, IsJsonFile)

\* the *.json files of a directory whose per-file try block runs to its end
JsonDocumentFiles(dir) ==
    SelectSeq(dir.files, LAMBDA file : IsJsonFile(file) /\ FileYieldsDocument(file))

\* Array.prototype.sort((a, b) => b.createdAt - a.createdAt): stable, newest first
RECURSIVE SortNewestFirst(_)
SortNewestFirst(infos) ==
    IF Len(infos) = 0 THEN <<>>
    ELSE LET rest == SortNewestFirst(Tail(infos))
             before == SelectSeq(rest, LAMBDA x : x.createdAt > Head(infos).createdAt)
             after == SelectSeq(rest, LAMBDA x : x.createdAt <= Head(infos).createdAt)
         IN  before \o <<Head(infos)>> \o after

ExecutionTraceInfo(file) ==
    [id |-> IF file.doc[1].id # "" THEN file.doc[1].id ELSE FallbackId(file),
     baseDiagramId |-> file.doc[1].baseDiagramId,
     entryPoint |-> file.doc[1].entryPoint,
     createdAt |-> file.doc[1].metadata.timestamp,
     stepCount |-> Len(file.doc[1].steps)]

\* ExecutionTraceStorageService.listExecutionTraces; baseDiagramId "" is undefined
listExecutionTraces(dir, baseDiagramId) ==
    IF ~dir.exists THEN <<>>
    ELSE LET wanted ==
                 SelectSeq(JsonDocumentFiles(dir),
                           LAMBDA file : baseDiagramId = ""
                                         \/ file.doc[1].baseDiagramId = baseDiagramId)
         IN  SortNewestFirst([i \in 1..Len(wanted) |-> ExecutionTraceInfo(wanted[i])])

DiagramInfo(file) ==
    [id |-> IF file.doc[1].id # "" THEN file.doc[1].id ELSE FallbackId(file),
     entryPoint |-> file.doc[1].entryPoint,
     description |-> file.doc[1].description,
     createdAt |-> file.doc[1].metadata.timestamp,
     nodeCount |-> Len(file.doc[1].nodes)]

\* DiagramStorageService.listDiagrams
listDiagrams(dir) ==
    IF ~dir.exists THEN <<>>
    ELSE LET found == JsonDocumentFiles(dir)
         IN  SortNewestFirst([i \in 1..Len(found) |-> DiagramInfo(found[i])])

HasFile(dir, name) == \E i \in 1..Len(dir.files) : dir.files[i].name = name

FileNamed(dir, name) == CHOOSE file \in Range(dir.files) : file.name = name

\* fs.mkdir(recursive) and fs.writeFile: the file is created or replaced
WriteFile(dir, file) ==
    Directory(TRUE,
              IF HasFile(dir, file.name)
              THEN [i \in 1..Len(dir.files) |->
                       IF dir.files[i].name = file.name THEN file ELSE dir.files[i]]
              ELSE Append(dir.files, file))

\* the documents a store may hold and the webview may send
TraceDocument(id, entryPoint, timestamp) ==
    [EarlierTrace EXCEPT !.id = id, !.entryPoint = entryPoint,
                         !.metadata.timestamp = timestamp]

DiagramDocument(id, entryPoint, timestamp) ==
    [id |-> id, entryPoint |-> entryPoint, description |-> "Traces " \o entryPoint,
     nodes |-> <<"n1", "n2">>, metadata |-> [timestamp |-> timestamp]]

OtherDiagramTrace == [TraceDocument("", "GET /api/orders", 2) EXCEPT !.baseDiagramId = AbsentDiagramId]

TraceFileChoices ==
    <<StoredFile(DocumentFileName(EarlierTrace.id), "document", <<EarlierTrace>>),
      StoredFile(DocumentFileName("trace_0_broken"), "garbage", <<>>),
      StoredFile(DocumentFileName("imported"), "document", <<OtherDiagramTrace>>),
      StoredFile(<<"notes", ".txt">>, "garbage", <<>>),
      StoredFile(DocumentFileName("trace_0_null"), "null", <<>>),
      StoredFile(DocumentFileName("trace_0_locked"), "unreadable", <<>>)>>

DiagramFileChoices ==
    <<StoredFile(DocumentFileName("src_app_ts_1"), "document",
                 <<DiagramDocument("src_app_ts_1", "src/app.ts", 1)>>),
      StoredFile(DocumentFileName("src_broken_ts_1"), "garbage", <<>>),
      StoredFile(DocumentFileName("src_api_ts_2"), "document",
                 <<DiagramDocument("", "src/api.ts", 2)>>),
      StoredFile(DocumentFileName("src_locked_ts_2"), "unreadable", <<>>)>>

\* no directory yet, or a directory holding the first n of the files
Directories(choices) ==
    {MissingDirectory}
    \cup {Directory(TRUE, SubSeq(choices, 1, n)) : n \in 0..Len(choices)}

\* the trace documents the webview sends as req.traceJson: without an id, with
\* the id of the stored trace, with an id of its own
TraceDocumentsSent ==
    {TraceDocument("", "GET /api/users", 2),
     TraceDocument(EarlierTrace.id, "DELETE /api/users", 2),
     TraceDocument("trace_9_fresh0", "GET /api/users", 2)}

StoreStart ==
    /\ traceDir \in Directories(TraceFileChoices)
    /\ diagramDir \in Directories(DiagramFileChoices)
    /\ persisted = SelectSeq(traceDir.files, LAMBDA file : file.kind = "document")
    /\ storeCall = NoCall
    /\ storeResult = NoResult
    /\ saves = 0

\* controller saveExecutionTrace: JSON.parse throws
SaveTraceInvalidJson ==
    /\ storeCall.op # "idle"
    /\ saves < MaxSaves
    /\ storeCall' = [op |-> "saveExecutionTrace", arg |-> "not json"]
    /\ storeResult' = Thrown("Invalid trace JSON")
    /\ saves' = saves + 1
    /\ UNCHANGED <<traceDir, diagramDir, persisted>>
    /\ UNCHANGED outsideStore

\* controller saveExecutionTrace of the text `null`: the directory is ensured,
\* then `trace.id` throws a TypeError
SaveTraceNull ==
    /\ storeCall.op # "idle"
    /\ saves < MaxSaves
    /\ storeCall' = [op |-> "saveExecutionTrace", arg |-> "null"]
    /\ traceDir' = Directory(TRUE, traceDir.files)
    /\ storeResult' = Thrown("TypeError")
    /\ saves' = saves + 1
    /\ UNCHANGED <<diagramDir, persisted>>
    /\ UNCHANGED outsideStore

\* controller saveExecutionTrace of a trace document: it is written under its
\* own id, or under a generated one when it has none
SaveTraceDocument ==
    /\ storeCall.op # "idle"
    /\ saves < MaxSaves
    /\ \E trace \in TraceDocumentsSent, now \in Clock, random \in RandomSuffixes :
          LET id == SavedTraceId(trace, now, random)
              file == StoredFile(DocumentFileName(id), "document",
                                 <<[trace EXCEPT !.id = id]>>)
          IN  /\ traceDir' = WriteFile(traceDir, file)
              /\ persisted' = IF \E k \in 1..Len(persisted) : persisted[k].name = file.name
                              THEN persisted
                              ELSE Append(persisted, file)
              /\ storeCall' = [op |-> "saveExecutionTrace", arg |-> trace.id]
              /\ storeResult' = Returned(<<id>>)
    /\ saves' = saves + 1
    /\ UNCHANGED diagramDir
    /\ UNCHANGED outsideStore

\* controller listExecutionTraces, with or without a base diagram id
ListExecutionTraces ==
    /\ storeCall.op # "idle"
    /\ \E baseDiagramId \in {"", StoredDiagramId} :
          /\ storeCall' = [op |-> "listExecutionTraces", arg |-> baseDiagramId]
          /\ storeResult' = Returned(listExecutionTraces(traceDir, baseDiagramId))
    /\ UNCHANGED <<traceDir, diagramDir, persisted, saves>>
    /\ UNCHANGED outsideStore

\* controller listDiagrams
ListDiagrams ==
    /\ storeCall.op # "idle"
    /\ storeCall' = [op |-> "listDiagrams", arg |-> ""]
    /\ storeResult' = Returned(listDiagrams(diagramDir))
    /\ UNCHANGED <<traceDir, diagramDir, persisted, saves>>
    /\ UNCHANGED outsideStore

StoreNext ==
    \/ SaveTraceInvalidJson \/ SaveTraceNull \/ SaveTraceDocument
    \/ ListExecutionTraces \/ ListDiagrams

(***************************************************************************)
(* The detection rules of C4ComponentDetectionService called on their own: *)
(* detectComponentType on one FileRecord, detectRelationshipType and       *)
(* detectProtocol on one pair of endpoint clusters with the edge's         *)
(* topDependencies.  The files cover every rule and the places where two   *)
(* rules compete (a client file in a controllers directory, a middleware   *)
(* file under /api/, an axios import in a routes file, ...).               *)
(***************************************************************************)
MaxEvidence == 2

ProbePaths ==
    {"src/controllers/user.controller.ts", "src/services/user.service.ts",
     "src/db/user.repository.ts", "src/api/client.ts", "src/controllers/api.gateway.ts",
     "src/routes/index.ts", "src/Controllers/User.ts", "src/clients/user.controller.ts",
     "src/middleware/auth.ts", "src/api/auth.middleware.ts", "src/services/payment.client.ts",
     "src/core/task.manager.ts", "src/repositories/user.dao.ts", "src/models/user.model.ts",
     "src/components/Button.tsx", "src/ui/Button.tsx", "src/ui/button.tsx",
     "src/clients/github.ts", "src/integrations/github.ts", "src/api/github.ts",
     "src/queue/email.worker.ts", "src/cache/session.ts", "src/external/stripe.ts",
     "src/config/env.ts", "src/env.ts", "src/constants.ts", "src/utils/format.ts",
     "src/misc/thing.ts"}

ProbeExports ==
    {<<>>, <<Export("UserController", "class")>>, <<Export("UserService", "class")>>,
     <<Export("UserRepository", "class")>>, <<Export("authMiddleware", "function")>>,
     <<Export("Button", "function")>>, <<Export("format", "const")>>}

ProbeImports ==
    {<<>>, <<Import("express", FALSE)>>, <<Import("axios", FALSE)>>,
     <<Import("@prisma/client", FALSE)>>, <<Import("sequelize", FALSE)>>,
     <<Import("bull", FALSE)>>, <<Import("ioredis", FALSE)>>}

ProbeFiles ==
    {File(p, 10, "typescript", ex, im) : p \in ProbePaths, ex \in ProbeExports, im \in ProbeImports}

NoProbeFile == File("", 0, "", <<>>, <<>>)

\* C4ComponentType
ComponentTypes ==
    {"controller", "middleware", "service", "repository", "database", "component", "gateway",
     "message_queue", "cache", "external_system", "config", "utility"}

\* Cluster.componentType is optional: "" is a cluster without one
EndpointTypes == ComponentTypes \cup {""}

\* the files behind the topDependencies of the probed edge
PlainFile == File("src/utils/format.ts", 10, "typescript", <<>>, <<Import("express", FALSE)>>)
GrpcFile == File("src/api/client.ts", 10, "typescript", <<>>, <<Import("@grpc/grpc-js", FALSE)>>)
ApolloFile ==
    File("src/integrations/github.ts", 10, "typescript", <<>>, <<Import("@apollo/client", FALSE)>>)
SocketFile ==
    File("src/queue/email.worker.ts", 10, "typescript", <<>>, <<Import("socket.io", FALSE)>>)
AwsFile == File("src/misc/thing.ts", 10, "typescript", <<>>, <<Import("aws-sdk", FALSE)>>)

EvidenceInventory ==
    Inventory(<<PlainFile, GrpcFile, ApolloFile, SocketFile, AwsFile>>, <<>>, 1, "/ws")

EvidencePaths == InventoryPaths(EvidenceInventory) \cup {GhostPath}

EvidenceCounts == {writeCountThreshold, writeCountThreshold + 1}

\* topDependencies: the first entry carries the count the read/write rule looks at;
\* every entry points at the gRPC file, which is evidence only where it is a source
TopDependencyLists ==
    UNION {{[k \in 1..n |-> TopDep(from[k], GrpcFile.path, IF k = 1 THEN count ELSE 1)] :
               from \in [1..n -> EvidencePaths], count \in EvidenceCounts} :
           n \in 0..MaxEvidence}

EdgeProbe(given, fromType, toType, topDependencies) ==
    [given |-> given, fromType |-> fromType, toType |-> toType,
     topDependencies |-> topDependencies]

NoEdgeProbe == EdgeProbe(FALSE, "", "", <<>>)

EdgeProbes ==
    {EdgeProbe(TRUE, f, t, deps) :
        f \in EndpointTypes, t \in EndpointTypes, deps \in TopDependencyLists}

ProbeCluster(i, componentType) == Cluster(ClusterId(i), <<>>, <<>>, componentType)

NothingDetected == [componentType |-> "", relationshipType |-> "", protocol |-> ""]

DetectStart ==
    /\ \/ detFile \in ProbeFiles /\ detEdge = NoEdgeProbe
       \/ detFile = NoProbeFile /\ detEdge \in EdgeProbes
    /\ detected = NothingDetected

DetectComponentType ==
    /\ detFile # NoProbeFile
    /\ detected.componentType = ""
    /\ detected' = [detected EXCEPT !.componentType = detectComponentType(detFile)]
    /\ UNCHANGED <<detFile, detEdge>>
    /\ UNCHANGED outsideDetect

\* enrichWithC4Detection hands over edge.topDependencies[0]
DetectRelationshipType ==
    /\ detEdge.given
    /\ detected.relationshipType = ""
    /\ detected' = [detected EXCEPT !.relationshipType =
                       detectRelationshipType(ProbeCluster(1, detEdge.fromType),
                                              ProbeCluster(2, detEdge.toType),
                                              detEdge.topDependencies)]
    /\ UNCHANGED <<detFile, detEdge>>
    /\ UNCHANGED outsideDetect

DetectProtocol ==
    /\ detEdge.given
    /\ detected.protocol = ""
    /\ detected' = [detected EXCEPT !.protocol =
                       detectProtocol(ProbeCluster(1, detEdge.fromType),
                                      ProbeCluster(2, detEdge.toType),
                                      detEdge.topDependencies, EvidenceInventory)]
    /\ UNCHANGED <<detFile, detEdge>>
    /\ UNCHANGED outsideDetect

DetectNext == DetectComponentType \/ DetectRelationshipType \/ DetectProtocol

(***************************************************************************)
(* Trace playback in the webview: ArchitectureView holds the state,        *)
(* ExecutionTraceViewer and AnimationControls turn clicks into the         *)
(* callbacks, and an interval set by an effect drives auto-play.  A click   *)
(* handler's updates are rendered before the next event; the updates of a  *)
(* timer callback or of a finished load are rendered later, so a click or  *)
(* a tick may still come from the previous render.                         *)
(***************************************************************************)
MaxTraceLength == 4

\* traces the store may hand to loadTrace, by their number of steps
TraceLengths == 0..MaxTraceLength

\* the traces the home view lists
ListedTraceIds == {generateTraceId(1, "k3x9q1"), generateTraceId(2, "p0d7zz")}

Screen(view, step, playing, steps) ==
    [view |-> view, step |-> step, playing |-> playing, steps |-> steps]

NoScreen == Screen("none", 0, FALSE, 0)

\* the return statements of ArchitectureView in their order, with the props the
\* trace viewer's handlers close over
Rendered(mode, trace, graph, isLoading, hasError, step, playing) ==
    IF isLoading THEN Screen("loading", 0, FALSE, 0)
    ELSE IF hasError THEN Screen("error", 0, FALSE, 0)
    ELSE IF mode = "trace" /\ trace # <<>> /\ graph THEN Screen("trace", step, playing, trace[1])
    ELSE IF mode = "diagram" /\ graph THEN Screen("diagram", 0, FALSE, 0)
    ELSE Screen("home", 0, FALSE, 0)

\* the auto-play effect: an interval exists while isPlaying in trace mode with a trace
AutoPlayTimer(mode, trace, playing) ==
    IF ~playing \/ mode # "trace" \/ trace = <<>> THEN <<>> ELSE trace

PlaybackStart ==
    /\ viewMode = "home"
    /\ selectedDiagramId = ""
    /\ selectedTraceId = ""
    /\ executionTrace = <<>>
    /\ graphLoaded = FALSE
    /\ loading = FALSE
    /\ loadError = FALSE
    /\ currentStepIndex = 0
    /\ isPlaying = FALSE
    /\ screen = Screen("home", 0, FALSE, 0)
    /\ timer = <<>>
    /\ advances = 0

\* handleSelectTrace, the render and the effect that calls loadTrace up to its await
SelectTrace ==
    /\ screen.view = "home"
    /\ \E traceId \in ListedTraceIds : selectedTraceId' = traceId
    /\ selectedDiagramId' = StoredDiagramId
    /\ viewMode' = "trace"
    /\ loading' = TRUE
    /\ loadError' = FALSE
    /\ screen' = Rendered("trace", executionTrace, graphLoaded, TRUE, FALSE,
                          currentStepIndex, isPlaying)
    /\ timer' = AutoPlayTimer("trace", executionTrace, isPlaying)
    /\ UNCHANGED <<executionTrace, graphLoaded, currentStepIndex, isPlaying, advances>>
    /\ UNCHANGED outsidePlayback

\* handleSelectDiagram, the render and the effect that calls loadDiagram
SelectDiagram ==
    /\ screen.view = "home"
    /\ selectedDiagramId' = StoredDiagramId
    /\ selectedTraceId' = ""
    /\ viewMode' = "diagram"
    /\ executionTrace' = <<>>
    /\ loading' = TRUE
    /\ loadError' = FALSE
    /\ screen' = Rendered("diagram", <<>>, graphLoaded, TRUE, FALSE, currentStepIndex,
                          isPlaying)
    /\ timer' = AutoPlayTimer("diagram", <<>>, isPlaying)
    /\ UNCHANGED <<graphLoaded, currentStepIndex, isPlaying, advances>>
    /\ UNCHANGED outsidePlayback

\* loadTrace after its awaits: the trace and its base diagram arrived
TraceLoaded ==
    /\ loading
    /\ viewMode = "trace"
    /\ \E n \in TraceLengths : executionTrace' = <<n>>
    /\ graphLoaded' = TRUE
    /\ loading' = FALSE
    /\ UNCHANGED <<viewMode, selectedDiagramId, selectedTraceId, loadError, currentStepIndex, isPlaying, screen, timer, advances>>
    /\ UNCHANGED outsidePlayback

\* loadDiagram after its await
DiagramLoaded ==
    /\ loading
    /\ viewMode = "diagram"
    /\ graphLoaded' = TRUE
    /\ loading' = FALSE
    /\ UNCHANGED <<viewMode, selectedDiagramId, selectedTraceId, executionTrace, loadError, currentStepIndex, isPlaying, screen,
                   timer, advances>>
    /\ UNCHANGED outsidePlayback

\* the catch block of loadTrace and of loadDiagram
LoadFails ==
    /\ loading
    /\ loadError' = TRUE
    /\ loading' = FALSE
    /\ UNCHANGED <<viewMode, selectedDiagramId, selectedTraceId, executionTrace, graphLoaded, currentStepIndex, isPlaying,
                   screen, timer, advances>>
    /\ UNCHANGED outsidePlayback

\* React renders the pending updates and runs the effects
Render ==
    /\ \/ screen # Rendered(viewMode, executionTrace, graphLoaded, loading, loadError,
                            currentStepIndex, isPlaying)
       \/ timer # AutoPlayTimer(viewMode, executionTrace, isPlaying)
    /\ screen' = Rendered(viewMode, executionTrace, graphLoaded, loading, loadError,
                          currentStepIndex, isPlaying)
    /\ timer' = AutoPlayTimer(viewMode, executionTrace, isPlaying)
    /\ UNCHANGED <<viewMode, selectedDiagramId, selectedTraceId, executionTrace, graphLoaded, loading, loadError,
                   currentStepIndex, isPlaying, advances>>
    /\ UNCHANGED outsidePlayback

\* onPlayToggle: setIsPlaying(!isPlaying) with the isPlaying of the render
PlayToggle ==
    /\ screen.view = "trace"
    /\ isPlaying' = ~screen.playing
    /\ advances' = 0
    /\ screen' = Rendered(viewMode, executionTrace, graphLoaded, loading, loadError,
                          currentStepIndex, ~screen.playing)
    /\ timer' = AutoPlayTimer(viewMode, executionTrace, ~screen.playing)
    /\ UNCHANGED <<viewMode, selectedDiagramId, selectedTraceId, executionTrace, graphLoaded, loading, loadError,
                   currentStepIndex>>
    /\ UNCHANGED outsidePlayback

\* a click that ends in onStepChange(step): setCurrentStep, then the render
StepTo(step) ==
    /\ currentStepIndex' = step
    /\ advances' = 0
    /\ screen' = Rendered(viewMode, executionTrace, graphLoaded, loading, loadError, step,
                          isPlaying)
    /\ timer' = AutoPlayTimer(viewMode, executionTrace, isPlaying)
    /\ UNCHANGED <<viewMode, selectedDiagramId, selectedTraceId, executionTrace, graphLoaded, loading, loadError, isPlaying>>
    /\ UNCHANGED outsidePlayback

\* onStepBack: the button is disabled unless currentStep > 0
StepBack ==
    /\ screen.view = "trace"
    /\ screen.step > 0
    /\ StepTo(IF screen.step - 1 > 0 THEN screen.step - 1 ELSE 0)

\* onStepForward: the button is disabled unless currentStep < totalSteps - 1
StepForward ==
    /\ screen.view = "trace"
    /\ screen.step < screen.steps - 1
    /\ StepTo(Min(screen.steps - 1, screen.step + 1))

\* onReset
ResetPlayback ==
    /\ screen.view = "trace"
    /\ StepTo(0)

\* handleBackToHome, from the trace header, the diagram header or the error screen;
\* `error` is not among the states it resets
BackToHome ==
    /\ screen.view \in {"trace", "diagram", "error"}
    /\ viewMode' = "home"
    /\ selectedDiagramId' = ""
    /\ selectedTraceId' = ""
    /\ executionTrace' = <<>>
    /\ graphLoaded' = FALSE
    /\ currentStepIndex' = 0
    /\ isPlaying' = FALSE
    /\ advances' = 0
    /\ screen' = Rendered("home", <<>>, FALSE, loading, loadError, 0, FALSE)
    /\ timer' = <<>>
    /\ UNCHANGED <<loading, loadError>>
    /\ UNCHANGED outsidePlayback

\* the interval of the last effect fires with the longer-by-one test `prev > n - 1`
TickPastTheEnd ==
    /\ timer # <<>>
    /\ IF currentStepIndex > timer[1] - 1
       THEN isPlaying' = FALSE /\ UNCHANGED <<currentStepIndex, advances>>
       ELSE /\ currentStepIndex' = currentStepIndex + 1
            /\ advances' = advances + 1
            /\ UNCHANGED isPlaying
    /\ UNCHANGED <<viewMode, selectedDiagramId, selectedTraceId, executionTrace, graphLoaded, loading, loadError, screen, timer>>
    /\ UNCHANGED outsidePlayback

\* the interval of the last effect fires: the updater of setCurrentStep sees the
\* current state, executionTrace is the one the effect closed over
Tick ==
    /\ timer # <<>>
    /\ IF currentStepIndex >= timer[1] - 1
       THEN isPlaying' = FALSE /\ UNCHANGED <<currentStepIndex, advances>>
       ELSE /\ currentStepIndex' = currentStepIndex + 1
            /\ advances' = advances + 1
            /\ UNCHANGED isPlaying
    /\ UNCHANGED <<viewMode, selectedDiagramId, selectedTraceId, executionTrace, graphLoaded, loading, loadError, screen, timer>>
    /\ UNCHANGED outsidePlayback

PlaybackNext ==
    \/ SelectTrace \/ SelectDiagram \/ TraceLoaded \/ DiagramLoaded \/ LoadFails \/ Render
    \/ PlayToggle \/ StepBack \/ StepForward \/ ResetPlayback \/ BackToHome \/ Tick

(***************************************************************************)
(* Specifications: one operation of the program runs per behaviour.        *)
(***************************************************************************)
ClusterIdle ==
    /\ inventory = FullInventory
    /\ userHint = ""
    /\ pc = "idle"
    /\ attempts = 0
    /\ lastError = <<>>
    /\ prompts = <<>>
    /\ errorLog = <<>>
    /\ response = NoAnswer
    /\ result = <<>>
    /\ thrown = <<>>

TraceIdle ==
    /\ diagrams = EmptyStore
    /\ traces = EmptyStore
    /\ tracePc = "idle"
    /\ request = NoRequest
    /\ reply = NoReply
    /\ consecutiveMistakeCount = 0

InventoryIdle ==
    /\ disk = <<>>
    /\ scanOptions = NoScanOptions
    /\ progressCallback = FALSE
    /\ invPc = "idle"
    /\ scannedFiles = <<>>
    /\ cursor = 0
    /\ fileRecords = <<>>
    /\ allDependencies = <<>>
    /\ inFlight = {}
    /\ settled = {}
    /\ progress = <<>>
    /\ analysis = <<>>
    /\ invThrown = ""
    /\ abandoned = <<>>

AggregateIdle ==
    /\ rawEdges = <<>>
    /\ reordered = <<>>
    /\ edgesOnce = <<>>
    /\ edgesAgain = <<>>
    /\ aggPc = "idle"

GenerateIdle ==
    /\ workspaceRev = 1
    /\ cacheDoc = <<>>
    /\ invalidated = FALSE
    /\ genPc = "idle"
    /\ useCache = ""
    /\ run = NoRun
    /\ runs = 0
    /\ diagramLog = <<>>
    /\ genReply = ""

StoreIdle ==
    /\ traceDir = MissingDirectory
    /\ diagramDir = MissingDirectory
    /\ persisted = <<>>
    /\ storeCall = IdleCall
    /\ storeResult = NoResult
    /\ saves = 0

DetectIdle ==
    /\ detFile = NoProbeFile
    /\ detEdge = NoEdgeProbe
    /\ detected = NothingDetected

PlaybackIdle ==
    /\ viewMode = "idle"
    /\ selectedDiagramId = ""
    /\ selectedTraceId = ""
    /\ executionTrace = <<>>
    /\ graphLoaded = FALSE
    /\ loading = FALSE
    /\ loadError = FALSE
    /\ currentStepIndex = 0
    /\ isPlaying = FALSE
    /\ screen = NoScreen
    /\ timer = <<>>
    /\ advances = 0

Idle(tag) ==
    /\ tag = "cluster" \/ ClusterIdle
    /\ tag = "trace" \/ TraceIdle
    /\ tag = "inventory" \/ InventoryIdle
    /\ tag = "aggregate" \/ AggregateIdle
    /\ tag = "generate" \/ GenerateIdle
    /\ tag = "store" \/ StoreIdle
    /\ tag = "detect" \/ DetectIdle
    /\ tag = "playback" \/ PlaybackIdle

ClusterInit == ClusterStart /\ Idle("cluster")
TraceInit == TraceStart /\ Idle("trace")
InventoryInit == InventoryStart /\ Idle("inventory")
AggregateInit == AggregateStart /\ Idle("aggregate")
GenerateInit == GenerateStart /\ Idle("generate")
StoreInit == StoreStart /\ Idle("store")
PlaybackInit == PlaybackStart /\ Idle("playback")
DetectInit == DetectStart /\ Idle("detect")
AnyBatchSizeInit == AnyBatchSizeStart /\ Idle("inventory")

ClusterSpec == ClusterInit /\ [][ClusterNext]_vars
TraceSpec == TraceInit /\ [][TraceNext]_vars
InventorySpec == InventoryInit /\ [][InventoryNext]_vars
AggregateSpec == AggregateInit /\ [][AggregateNext]_vars
GenerateSpec == GenerateInit /\ [][GenerateNext]_vars
StoreSpec == StoreInit /\ [][StoreNext]_vars
DetectSpec == DetectInit /\ [][DetectNext]_vars
PlaybackSpec == PlaybackInit /\ [][PlaybackNext]_vars
AnyBatchSizeSpec == AnyBatchSizeInit /\ [][InventoryNext]_vars

Init ==
    \/ ClusterInit \/ TraceInit \/ InventoryInit \/ AggregateInit \/ GenerateInit \/ StoreInit
    \/ DetectInit \/ AnyBatchSizeInit \/ PlaybackInit
Next ==
    \/ ClusterNext \/ TraceNext \/ InventoryNext \/ AggregateNext \/ GenerateNext \/ StoreNext
    \/ DetectNext \/ PlaybackNext
Spec == Init /\ [][Next]_vars

(***************************************************************************)
(* Properties of trace_component_execution.                                *)
(***************************************************************************)
StepComponentIds(steps) == {steps[i].componentId : i \in 1..Len(steps)}

\* the call got as far as checking the steps against a loaded base graph
ReachedComponentCheck ==
    /\ tracePc = "returned"
    /\ ParamsPresent(request)
    /\ request.cwd # ""
    /\ StepsUsable(request)
    /\ request.base_diagram_id \in DOMAIN diagrams

\* C6: when a step's componentId is no cluster id of the base graph, the build
\* fails with an error that names every offending id and lists every valid
\* cluster id of the base graph.
C6_UnknownComponentIdIsEnumeratedError ==
    ReachedComponentCheck =>
        LET clusterIds == GraphClusterIds(diagrams[request.base_diagram_id])
            stepIds == StepComponentIds(request.execution_steps.steps)
        IN  (stepIds \ clusterIds # {}) =>
                /\ reply.status = "toolError"
                /\ reply.text[1] = "Invalid componentId(s): "
                /\ (stepIds \ clusterIds) \subseteq Range(reply.text)
                /\ clusterIds \subseteq Range(reply.text)

\* steps [c-a, zz, c-b]: a known id, an unknown one, a known one
C6_Witness ==
    /\ ReachedComponentCheck
    /\ Len(request.execution_steps.steps) = 3
    /\ request.execution_steps.steps[1].componentId = ClusterId(1)
    /\ request.execution_steps.steps[2].componentId = UnknownId
    /\ request.execution_steps.steps[3].componentId = ClusterId(2)
    /\ reply.status = "toolError"

\* C7: a call whose base diagram is absent, or one of whose steps has an unknown
\* componentId, fails and leaves the trace store unchanged; the store changes only
\* in a call whose base graph was loaded and whose steps all name its clusters.
C7_TraceSavedOnlyAfterValidation ==
    [][(tracePc = "invoked" /\ tracePc' = "returned") =>
          LET loaded == request'.base_diagram_id \in DOMAIN diagrams
              known == /\ loaded
                       /\ StepComponentIds(request'.execution_steps.steps)
                             \subseteq GraphClusterIds(diagrams[request'.base_diagram_id])
          IN  /\ (~loaded \/ ~known) => (traces' = traces /\ reply'.status # "toolResult")
              /\ traces' # traces => (loaded /\ known /\ reply'.status = "toolResult")]_vars

\* the base diagram is absent, the call failed, the earlier trace is all there is
C7_Witness ==
    /\ tracePc = "returned"
    /\ request.base_diagram_id = AbsentDiagramId
    /\ Len(request.execution_steps.steps) = 2
    /\ reply.status = "toolError"
    /\ traces = (EarlierTrace.id :> EarlierTrace)

\* the trace document written by the call that just returned
NewTrace == traces[reply.text[2]]

HasEdge(g, source, target) ==
    \E k \in 1..Len(g.clusterEdges) :
        g.clusterEdges[k].source = source /\ g.clusterEdges[k].target = target

\* C8: animatedEdges holds, in increasing order of i, exactly one entry
\* {edgeId, animationOrder = i+1, durationMs = 1000} for each consecutive pair
\* (s[i], s[i+1]) joined by a ClusterEdge of the base graph, and no other entry.
C8_AnimatedEdgesFollowConsecutivePairs ==
    (tracePc = "returned" /\ reply.status = "toolResult") =>
        LET g == diagrams[NewTrace.baseDiagramId]
            s == NewTrace.steps
            ae == NewTrace.animatedEdges
            \* 1-based position p stands for the pair (s[i], s[i+1]) with i = p - 1
            joined == {p \in 1..(Len(s) - 1) :
                          HasEdge(g, s[p].componentId, s[p + 1].componentId)}
        IN  /\ s = request.execution_steps.steps
            /\ Len(ae) = Cardinality(joined)
            /\ {ae[j].animationOrder : j \in 1..Len(ae)} = joined
            /\ \A j \in 1..Len(ae) : \A k \in 1..Len(ae) :
                  j < k => ae[j].animationOrder < ae[k].animationOrder
            /\ \A j \in 1..Len(ae) :
                  /\ ae[j].durationMs = 1000
                  /\ \E k \in 1..Len(g.clusterEdges) :
                        /\ g.clusterEdges[k].id = ae[j].edgeId
                        /\ g.clusterEdges[k].source = s[ae[j].animationOrder].componentId
                        /\ g.clusterEdges[k].target = s[ae[j].animationOrder + 1].componentId

\* steps [A, B, C] = [c-b, c-c, c-a]: an edge for (A, B), none for (B, C)
C8_Witness ==
    /\ tracePc = "returned"
    /\ reply.status = "toolResult"
    /\ Len(NewTrace.steps) = 3
    /\ NewTrace.steps[1].componentId = ClusterId(2)
    /\ NewTrace.steps[2].componentId = ClusterId(3)
    /\ NewTrace.steps[3].componentId = ClusterId(1)
    /\ NewTrace.animatedEdges = <<[edgeId |-> "e2", animationOrder |-> 1, durationMs |-> 1000]>>

FirstOccurrence(steps, id) ==
    CHOOSE i \in 1..Len(steps) :
        /\ steps[i].componentId = id
        /\ \A j \in 1..(i - 1) : steps[j].componentId # id

\* C9: highlightedComponents lists the distinct componentIds of the steps in order
\* of first occurrence: no duplicates, every step's componentId, and a repeated
\* component keeps the position of its first occurrence.
C9_HighlightedComponentsInFirstSeenOrder ==
    (tracePc = "returned" /\ reply.status = "toolResult") =>
        LET s == NewTrace.steps
            hc == NewTrace.highlightedComponents
        IN  /\ Range(hc) = StepComponentIds(s)
            /\ \A j \in 1..Len(hc) : \A k \in 1..Len(hc) :
                  j < k => /\ hc[j] # hc[k]
                           /\ FirstOccurrence(s, hc[j]) < FirstOccurrence(s, hc[k])
            /\ NewTrace.metadata.componentsInvolved = Cardinality(StepComponentIds(s))

\* steps [A, B, C, A]: A repeats after C and stays first
C9_Witness ==
    /\ tracePc = "returned"
    /\ reply.status = "toolResult"
    /\ Len(NewTrace.steps) = 4
    /\ NewTrace.steps[1].componentId = ClusterId(1)
    /\ NewTrace.steps[2].componentId = ClusterId(2)
    /\ NewTrace.steps[3].componentId = ClusterId(3)
    /\ NewTrace.steps[4].componentId = ClusterId(1)
    /\ NewTrace.highlightedComponents = <<ClusterId(1), ClusterId(2), ClusterId(3)>>

(***************************************************************************)
(* Properties of generateInventory.                                        *)
(***************************************************************************)
RawPairs(raw) == {<<raw[i].from, raw[i].to>> : i \in 1..Len(raw)}

RawWithPair(raw, from, to) == {i \in 1..Len(raw) : raw[i].from = from /\ raw[i].to = to}

RECURSIVE SumOfCounts(_, _)
SumOfCounts(raw, indices) ==
    IF indices = {} THEN 0
    ELSE LET i == CHOOSE i \in indices : TRUE
         IN  raw[i].count + SumOfCounts(raw, indices \ {i})

\* the edges `out` are the aggregation of the raw edges `raw` by (from, to)
AggregatesByPair(raw, out) ==
    /\ Len(out) = Cardinality(RawPairs(raw))
    /\ {<<out[k].from, out[k].to>> : k \in 1..Len(out)} = RawPairs(raw)
    /\ \A k \in 1..Len(out) :
          LET same == RawWithPair(raw, out[k].from, out[k].to)
              types == out[k].importedTypes
          IN  /\ out[k].count = SumOfCounts(raw, same)
              /\ Range(types) = UNION {Range(raw[i].types) : i \in same}
              /\ \A m \in 1..Len(types) : \A n \in 1..Len(types) :
                    m # n => types[m] # types[n]

\* C10: the aggregator outputs exactly one DependencyEdge per distinct (from, to)
\* pair of its input, whose count is the sum of the counts of the raw edges with
\* that pair and whose importedTypes is their imported names without repetition.
C10_OneEdgePerDistinctPair ==
    invPc = "returned" => AggregatesByPair(allDependencies, analysis[1].dependencies)

\* C10 where no path of a raw edge contains the key's separator ":::"
C10_OneEdgePerPairOfSeparatorFreePaths ==
    (/\ invPc = "returned"
     /\ \A i \in 1..Len(allDependencies) :
           {allDependencies[i].from, allDependencies[i].to} \subseteq {PathA, PathB})
    => AggregatesByPair(allDependencies, analysis[1].dependencies)

\* C10's example: {a.ts exporting foo, b.ts importing foo from a.ts}
C10_Example ==
    (/\ invPc = "returned"
     /\ disk = <<SourceFile(PathA, TRUE, <<>>),
                 SourceFile(PathB, TRUE, <<ImportFromA(<<"foo">>, FALSE)>>)>>)
    => analysis[1].dependencies =
           <<[from |-> PathB, to |-> PathA, count |-> 1, importedTypes |-> <<"foo">>]>>

\* two raw edges of one pair were merged: count 2, importedTypes [foo, bar]
C10_MergedWitness ==
    /\ invPc = "returned"
    /\ Len(allDependencies) = 2
    /\ analysis[1].dependencies =
           <<[from |-> PathB, to |-> PathA, count |-> 2,
              importedTypes |-> <<"foo", "bar">>]>>

\* two raw edges of different pairs share the key "b.ts:::x.ts:::a.ts"
C10_CollisionWitness ==
    /\ invPc = "returned"
    /\ Len(allDependencies) = 2
    /\ allDependencies[1].from = PathB /\ allDependencies[1].to = PathXA
    /\ allDependencies[2].from = PathBX /\ allDependencies[2].to = PathA
    /\ Len(analysis[1].dependencies) = 1

(***************************************************************************)
(* Properties of aggregateDependencies under reordering.                   *)
(***************************************************************************)
\* a DependencyEdge[] read as the claim reads it: pairs, counts, sets of names
EdgeFacts(edges) ==
    {<<edges[k].from, edges[k].to, edges[k].count, Range(edges[k].importedTypes)>> :
        k \in 1..Len(edges)}

SameAggregation(first, second) ==
    /\ Len(first) = Len(second)
    /\ EdgeFacts(first) = EdgeFacts(second)

\* C11: aggregating the same raw import edges in any order yields the same
\* (from, to) pairs, the same count for each pair and the same importedTypes set
\* for each pair.
C11_AggregationIsOrderIndependent ==
    aggPc = "twice" => SameAggregation(edgesOnce[1], edgesAgain[1])

\* C11 where no path of a raw edge contains the key's separator ":::"
C11_OrderIndependentForSeparatorFreePaths ==
    (/\ aggPc = "twice"
     /\ \A i \in 1..Len(rawEdges) : {rawEdges[i].from, rawEdges[i].to} \subseteq {PathA, PathB})
    => SameAggregation(edgesOnce[1], edgesAgain[1])

\* the two edges that share the key "b.ts:::x.ts:::a.ts", in both orders
C11_ReorderedCollisionWitness ==
    /\ aggPc = "twice"
    /\ rawEdges = <<RawEdge(PathB, PathXA, <<"qux">>), RawEdge(PathBX, PathA, <<"baz">>)>>
    /\ reordered = <<rawEdges[2], rawEdges[1]>>
    /\ edgesOnce[1][1].from = PathB
    /\ edgesAgain[1][1].from = PathBX

\* three raw edges of two pairs merged to the same two edges in a different order
C11_ReorderedMergeWitness ==
    /\ aggPc = "twice"
    /\ rawEdges = <<RawEdge(PathB, PathA, <<"foo">>), RawEdge(PathA, PathB, <<>>),
                    RawEdge(PathB, PathA, <<"bar", "foo">>)>>
    /\ reordered = <<rawEdges[3], rawEdges[2], rawEdges[1]>>
    /\ edgesOnce[1][1].importedTypes = <<"foo", "bar">>
    /\ edgesAgain[1][1].importedTypes = <<"bar", "foo">>

(***************************************************************************)
(* Properties of the inventory returned by generateInventory.              *)
(***************************************************************************)
ReturnedInventory == analysis[1]

RecordPaths(inv) == {inv.files[i].path : i \in 1..Len(inv.files)}

EdgeEnds(inv) ==
    {inv.dependencies[k].from : k \in 1..Len(inv.dependencies)}
    \cup {inv.dependencies[k].to : k \in 1..Len(inv.dependencies)}

\* C12: in every returned inventory the from and the to of every DependencyEdge
\* are paths of FileRecords of that inventory; an import of an unresolved,
\* external, excluded, skipped or dropped file produces no edge.
C12_EdgesJoinFileRecordsOfTheInventory ==
    invPc = "returned" => EdgeEnds(ReturnedInventory) \subseteq RecordPaths(ReturnedInventory)

\* what the code does ensure: an edge starts at a FileRecord and ends at a
\* file that exists on disk (external and unresolved imports produce no edge)
C12_EdgesStartAtRecordsAndEndAtExistingFiles ==
    invPc = "returned" =>
        \A k \in 1..Len(ReturnedInventory.dependencies) :
            /\ ReturnedInventory.dependencies[k].from \in RecordPaths(ReturnedInventory)
            /\ ReturnedInventory.dependencies[k].to \in DiskPaths(disk)

\* b.ts imports ./a and a.ts exists but is excluded from the scan
C12_ExcludedTargetWitness ==
    /\ invPc = "returned"
    /\ disk = <<IgnoredFile(PathA), SourceFile(PathB, TRUE, <<ImportFromA(<<"foo">>, FALSE)>>)>>
    /\ RecordPaths(ReturnedInventory) = {PathB}
    /\ ReturnedInventory.dependencies
         = <<[from |-> PathB, to |-> PathA, count |-> 1, importedTypes |-> <<"foo">>]>>

\* b.ts imports ./gone and react: neither produces an edge
C12_UnresolvedAndExternalWitness ==
    /\ invPc = "returned"
    /\ \E i \in 1..Len(disk) : disk[i].path = PathB /\ ImportMissing \in Range(disk[i].imports)
    /\ \E i \in 1..Len(disk) : disk[i].path = PathXA
    /\ Len(ReturnedInventory.dependencies) = 1

\* the ImportRecords of the returned FileRecords that resolved to a local file
ResolvedImports(inv) ==
    Flatten([i \in 1..Len(inv.files) |->
                SelectSeq(inv.files[i].imports, LAMBDA imp : imp.resolvedPath # <<>>)])

RuntimeImports(inv) == SelectSeq(ResolvedImports(inv), LAMBDA imp : ~imp.isTypeOnly)

ImportedSymbolsOf(imports) == UNION {Range(imports[i].importedSymbols) : i \in 1..Len(imports)}

EdgeCountTotal(inv) == SumOfCounts(inv.dependencies, 1..Len(inv.dependencies))

EdgeImportedTypes(inv) ==
    UNION {Range(inv.dependencies[k].importedTypes) : k \in 1..Len(inv.dependencies)}

\* C13: type-only imports are excluded from dependency aggregation: an
\* ImportRecord with isTypeOnly set contributes neither an edge nor to the count
\* or the importedTypes of any DependencyEdge of the inventory.
C13_TypeOnlyImportsAreNotAggregated ==
    invPc = "returned" =>
        /\ EdgeCountTotal(ReturnedInventory) = Len(RuntimeImports(ReturnedInventory))
        /\ EdgeImportedTypes(ReturnedInventory)
             \subseteq ImportedSymbolsOf(RuntimeImports(ReturnedInventory))

\* what the code does: every resolved import is aggregated, type-only or not
C13_EveryResolvedImportIsAggregated ==
    invPc = "returned" =>
        /\ EdgeCountTotal(ReturnedInventory) = Len(ResolvedImports(ReturnedInventory))
        /\ EdgeImportedTypes(ReturnedInventory)
             = ImportedSymbolsOf(ResolvedImports(ReturnedInventory))

\* b.ts holds `import type { Foo } from "./a"` and `import { foo, foo } from "./a"`
C13_TypeOnlyImportWitness ==
    /\ invPc = "returned"
    /\ disk = <<SourceFile(PathA, TRUE, <<>>),
                SourceFile(PathB, TRUE, <<ImportFromA(<<"Foo">>, TRUE),
                                          ImportFromA(<<"foo", "foo">>, FALSE)>>)>>
    /\ ReturnedInventory.files[2].imports[1].isTypeOnly
    /\ ReturnedInventory.dependencies
         = <<[from |-> PathB, to |-> PathA, count |-> 2, importedTypes |-> <<"Foo", "foo">>]>>

\* the batch (from 0) that the file at index i of `files` belongs to
BatchOf(i) == (i - 1) \div batchSize

StartedFiles == inFlight \cup settled

CompletedBatches == cursor \div batchSize

\* C14: the number of files analysed concurrently never exceeds the batch size;
\* no file of a later batch starts before every file of the batches before it
\* has finished; progress is reported once after each completed batch.
C14_BatchesBoundConcurrencyAndRunInSequence ==
    invPc \in {"analyzing", "awaiting", "returned"} =>
        /\ Cardinality(inFlight) <= batchSize
        /\ \A i \in StartedFiles : \A j \in 1..Len(scannedFiles) :
              BatchOf(j) < BatchOf(i) => j \in settled
        /\ \A i \in inFlight : BatchOf(i) = CompletedBatches
        /\ progressCallback =>
              /\ Len(progress) = CompletedBatches
              /\ \A k \in 1..Len(progress) :
                    progress[k] = <<Min(k * batchSize, Len(scannedFiles)), Len(scannedFiles)>>
        /\ ~progressCallback => progress = <<>>

\* four files in batches of two: the second batch is in flight, one of its files
\* has settled, and progress was reported once
C14_Witness ==
    /\ invPc = "awaiting"
    /\ Len(scannedFiles) = 4
    /\ batchSize = 2
    /\ progressCallback
    /\ settled = {1, 2, 4}
    /\ inFlight = {3}
    /\ progress = <<<<2, 4>>>>

\* the analysis of the file succeeds: it can be read, is not above the size
\* ceiling and ts-morph accepts it
AnalysisSucceeds(file) == file.readable /\ file.size <= maxFileSize /\ file.parses

SucceededPaths ==
    LET ok == SelectSeq(scannedFiles, LAMBDA f : AnalysisSucceeds(DiskFileAt(f, disk)))
    IN  [k \in 1..Len(ok) |-> pathRelative(Workspace, ok[k])]

\* C15: a failure on an individual file (unreadable, unparseable, above the size
\* ceiling) never aborts generateInventory: the file is dropped and the returned
\* inventory has a FileRecord for exactly the scanned files whose analysis succeeded.
C15_FailingFilesAreDroppedNotFatal ==
    /\ Len(scannedFiles) > 0 => invPc # "thrown" /\ invThrown = ""
    /\ invPc = "returned" =>
          /\ [i \in 1..Len(ReturnedInventory.files) |-> ReturnedInventory.files[i].path]
               = SucceededPaths
          /\ ReturnedInventory.metadata.fileCount = Len(SucceededPaths)

\* an oversized a.ts, a good b.ts and an unreadable x.ts:::a.ts: only b.ts is returned
C15_Witness ==
    /\ invPc = "returned"
    /\ disk = <<LargeFile(PathA), SourceFile(PathB, TRUE, <<ImportFromA(<<"foo">>, FALSE)>>),
                UnreadableFile(PathXA)>>
    /\ Len(scannedFiles) = 3
    /\ RecordPaths(ReturnedInventory) = {PathB}

\* every scanned file fails and the call still returns, with no FileRecord
C15_AllFilesFailWitness ==
    /\ invPc = "returned"
    /\ disk = <<SourceFile(PathA, FALSE, <<>>)>>
    /\ ReturnedInventory.files = <<>>

(***************************************************************************)
(* Properties of the enrichment inside clusterArchitecture.                *)
(***************************************************************************)
\* the collaborator's graph that the returned graph was built from
AnsweredGraph == response.data

ClusterFrameHolds(before, after) ==
    /\ after.id = before.id
    /\ after.files = before.files
    /\ after.keyFiles = before.keyFiles
    /\ before.componentType # "" => after.componentType = before.componentType
    /\ before.technology # NoTechnology => after.technology = before.technology

EdgeFrameHolds(before, after) ==
    /\ after.id = before.id
    /\ after.source = before.source
    /\ after.target = before.target
    /\ before.relationshipType # "" => after.relationshipType = before.relationshipType
    /\ before.protocol # "" => after.protocol = before.protocol
    /\ before.description # "" => after.description = before.description

\* C16: enrichment runs only on a graph that passed validation and only fills
\* gaps: a supplied componentType, technology, relationshipType, protocol or
\* description is unchanged, and cluster ids, files, keyFiles and edge sources
\* and targets are never modified.
C16_EnrichmentOnlyFillsGaps ==
    result # <<>> =>
        /\ SchemaError(AnsweredGraph) = ""
        /\ CrossReferenceError(AnsweredGraph, inventory) = ""
        /\ Len(result[1].clusters) = Len(AnsweredGraph.clusters)
        /\ Len(result[1].clusterEdges) = Len(AnsweredGraph.clusterEdges)
        /\ \A k \in 1..Len(AnsweredGraph.clusters) :
              ClusterFrameHolds(AnsweredGraph.clusters[k], result[1].clusters[k])
        /\ \A k \in 1..Len(AnsweredGraph.clusterEdges) :
              EdgeFrameHolds(AnsweredGraph.clusterEdges[k], result[1].clusterEdges[k])

\* a returned graph where supplied values were kept next to gaps that were filled
C16_Witness ==
    /\ result # <<>>
    /\ AnsweredGraph.clusters[3].componentType = "utility"
    /\ result[1].clusters[3].componentType = "utility"
    /\ detectComponentType(FindFile(inventory.files, AnsweredGraph.clusters[3].files[1])[1])
         # "utility"
    /\ AnsweredGraph.clusters[5].technology = SuppliedTechnology
    /\ result[1].clusters[5].technology = SuppliedTechnology
    /\ AnsweredGraph.clusters[1].componentType = ""
    /\ result[1].clusters[1].componentType # ""
    /\ result[1].clusters[1].technology # NoTechnology
    /\ AnsweredGraph.clusterEdges[1].relationshipType = ""
    /\ result[1].clusterEdges[1].relationshipType # ""
    /\ result[1].clusterEdges[1].description # ""
    /\ result[1].clusterEdges[2].description = "Uses shared helpers"
    /\ result[1].clusterEdges[2].protocol = "Internal"

(***************************************************************************)
(* Properties of the inventory cache across analysis runs.                 *)
(***************************************************************************)
RunGotAnInventory == genPc \in {"saving", "clustering"} \/ (genPc = "replied" /\ run.inventory # <<>>)

RunPastTheScan == genPc \in {"saving", "clustering"} \/ (genPc = "replied" /\ genReply # "toolDenied")

\* C17: a run reuses the cached inventory only when use_cache is not "false"
\* and a cached inventory document exists; a run that begins after
\* invalidateInventoryCache, or with use_cache = "false", scans the workspace
\* afresh and stores the inventory it generated as the cache.
C17_CacheReusedOnlyWhenAllowedElseRescanned ==
    /\ run.fromCache =>
          /\ useCache # "false"
          /\ run.source # <<>>
          /\ run.inventory = run.source[1].content
          /\ ~run.scanned
          /\ run.stored = <<>>
    /\ (RunPastTheScan /\ (useCache = "false" \/ run.startInvalidated)) =>
          /\ run.scanned
          /\ ~run.fromCache
    /\ (RunGotAnInventory /\ run.scanned) =>
          /\ \E rev \in 1..workspaceRev : run.inventory[1].files = FilesAtRevision(rev)
          /\ genPc # "saving" => run.stored = <<CacheDocument(run.inventory)>>
    /\ (genPc = "clustering" /\ run.scanned /\ ~invalidated) =>
          cacheDoc = <<CacheDocument(run.inventory)>>

\* the first run reused the cache; the workspace was edited and the cache
\* invalidated; the second run scanned the new revision and stored it
C17_Witness ==
    /\ runs = 2
    /\ genPc = "replied"
    /\ run.startInvalidated
    /\ useCache = ""
    /\ run.scanned
    /\ workspaceRev = 2
    /\ Len(diagramLog) = 2
    /\ diagramLog[1] = ScannedInventory(1, 1)
    /\ Len(diagramLog[2].files) = 2
    /\ cacheDoc = <<CacheDocument(<<diagramLog[2]>>)>>

\* use_cache = "false" with a cached document present: the run scans and replaces it
C17_ForcedRescanWitness ==
    /\ runs = 1
    /\ genPc = "clustering"
    /\ useCache = "false"
    /\ ~invalidated
    /\ run.scanned
    /\ workspaceRev = 2
    /\ cacheDoc = <<CacheDocument(run.inventory)>>
    /\ Len(run.inventory[1].files) = 2

(***************************************************************************)
(* Properties of the document stores.                                      *)
(***************************************************************************)
\* C18: stored documents are immutable: once a trace has been persisted under
\* an id, no later save changes the content stored under that id.
C18_PersistedDocumentsKeepTheirContent ==
    \A k \in 1..Len(persisted) :
        /\ HasFile(traceDir, persisted[k].name)
        /\ FileNamed(traceDir, persisted[k].name) = persisted[k]

\* a save of a document that has no id, under a generated id that no stored
\* file has, changes no stored document
C18_SaveUnderUnusedIdKeepsDocuments ==
    (/\ storeCall = [op |-> "saveExecutionTrace", arg |-> ""]
     /\ storeResult.status = "returned"
     /\ storeResult.value[1] # EarlierTrace.id
     /\ saves = 1)
    => C18_PersistedDocumentsKeepTheirContent

\* the webview saved a document that carries the id of the stored trace: the
\* file of that id now holds the new document
C18_OverwriteWitness ==
    /\ storeCall = [op |-> "saveExecutionTrace", arg |-> EarlierTrace.id]
    /\ storeResult = Returned(<<EarlierTrace.id>>)
    /\ persisted[1].doc = <<EarlierTrace>>
    /\ FileNamed(traceDir, DocumentFileName(EarlierTrace.id)).doc[1].entryPoint
         = "DELETE /api/users"

\* the indices of the files of a directory that hold a readable document
ReadableDocuments(dir) ==
    {i \in 1..Len(dir.files) : IsJsonFile(dir.files[i]) /\ dir.files[i].kind = "document"}

CorruptDocuments(dir) ==
    {i \in 1..Len(dir.files) : IsJsonFile(dir.files[i]) /\ dir.files[i].kind # "document"}

\* the listing has one entry per document of `wanted`, newest first
ListsExactly(listing, dir, wanted) ==
    /\ Len(listing) = Cardinality(wanted)
    /\ \A i \in wanted :
          \E k \in 1..Len(listing) :
              /\ listing[k].entryPoint = dir.files[i].doc[1].entryPoint
              /\ listing[k].createdAt = dir.files[i].doc[1].metadata.timestamp
              /\ listing[k].id \in {dir.files[i].doc[1].id, FallbackId(dir.files[i])}
    /\ \A k \in 1..(Len(listing) - 1) : listing[k].createdAt >= listing[k + 1].createdAt

\* C19: listExecutionTraces and listDiagrams return an entry for every readable
\* stored document even when other documents of the directory are corrupt or
\* unreadable; a corrupt document is skipped and the listing never fails.
C19_ListingSkipsCorruptDocuments ==
    /\ storeCall.op \in {"listExecutionTraces", "listDiagrams"} => storeResult.status = "returned"
    /\ storeCall.op = "listExecutionTraces" =>
          ListsExactly(storeResult.value, traceDir,
                       {i \in ReadableDocuments(traceDir) :
                           \/ storeCall.arg = ""
                           \/ traceDir.files[i].doc[1].baseDiagramId = storeCall.arg})
    /\ storeCall.op = "listDiagrams" =>
          ListsExactly(storeResult.value, diagramDir, ReadableDocuments(diagramDir))

\* a trace directory with three corrupt documents and two readable ones is listed
C19_Witness ==
    /\ storeCall = [op |-> "listExecutionTraces", arg |-> ""]
    /\ Cardinality(CorruptDocuments(traceDir)) = 3
    /\ Len(storeResult.value) = 2
    /\ storeResult.value[1].id = "imported"
    /\ storeResult.value[2].id = EarlierTrace.id

\* a diagram directory with two corrupt documents and two readable ones is listed
C19_DiagramsWitness ==
    /\ storeCall.op = "listDiagrams"
    /\ Cardinality(CorruptDocuments(diagramDir)) = 2
    /\ Len(storeResult.value) = 2
    /\ storeResult.value[1].id = "src_api_ts_2"
    /\ storeResult.value[2].id = "src_app_ts_1"

(***************************************************************************)
(* Properties of the transition check of the trace build.                  *)
(***************************************************************************)
\* the steps whose transitionTo is given and is not the next step's componentId
DisagreeingSteps(steps) ==
    {i \in 1..(Len(steps) - 1) :
        steps[i].transitionTo # "" /\ steps[i].transitionTo # steps[i + 1].componentId}

TransitionWarning(steps, i) ==
    "Step " \o IndexText[steps[i].stepNumber + 1] \o ": transitionTo \""
    \o steps[i].transitionTo \o "\" does not match next step's componentId \""
    \o steps[i + 1].componentId \o "\""

\* C20: a step whose transitionTo disagrees with the next step's componentId
\* never makes the trace build fail: the disagreement is reported as a warning
\* only, and the trace is still persisted and reported as created.
C20_TransitionDisagreementIsOnlyAWarning ==
    (/\ ReachedComponentCheck
     /\ StepComponentIds(request.execution_steps.steps)
           \subseteq GraphClusterIds(diagrams[request.base_diagram_id])
     /\ DisagreeingSteps(request.execution_steps.steps) # {})
    => /\ reply.status = "toolResult"
       /\ reply.text[1] = "Execution trace created successfully!\n\nTrace ID: "
       /\ reply.text[2] \in DOMAIN traces
       /\ NewTrace.steps = request.execution_steps.steps
       /\ NewTrace.baseDiagramId = request.base_diagram_id
       /\ "\n\nValidation warnings:\n" \in Range(reply.text)
       /\ \A i \in DisagreeingSteps(request.execution_steps.steps) :
             TransitionWarning(request.execution_steps.steps, i) \in Range(reply.text)

\* steps [c-a, c-b, c-c] whose first two transitionTo both name "zz"
C20_Witness ==
    /\ ReachedComponentCheck
    /\ Len(request.execution_steps.steps) = 3
    /\ DisagreeingSteps(request.execution_steps.steps) = {1, 2}
    /\ reply.status = "toolResult"
    /\ "Step 1: transitionTo \"zz\" does not match next step's componentId \"c-b\""
          \in Range(reply.text)
    /\ NewTrace.steps[1].transitionTo = UnknownId
    /\ Len(NewTrace.animatedEdges) = 2

(***************************************************************************)
(* The hash stored with a returned cluster graph, compared with the hash   *)
(* of the same workspace scanned at another time or under another root.    *)
(***************************************************************************)
\* generateInventory stamps metadata.timestamp with Date.now() at the end of a scan
RescannedAt(inv, now) ==
    Inventory(inv.files, inv.dependencies, now, inv.metadata.workspaceRoot)

MovedTo(inv, root) ==
    Inventory(inv.files, inv.dependencies, inv.metadata.timestamp, root)

SameCountLinesAndWorkspace(a, b) ==
    /\ Len(a.files) = Len(b.files)
    /\ a.metadata.totalLOC = b.metadata.totalLOC
    /\ a.metadata.workspaceRoot = b.metadata.workspaceRoot

StoredHash == result[1].metadata.sourceInventoryHash

\* C21: the sourceInventoryHash stored with a returned graph depends only on the
\* inventory's file count, total lines and workspace root: an inventory that agrees
\* with the clustered one on these three, scanned at any time, has the same hash.
C21_HashDependsOnCountLinesAndWorkspaceOnly ==
    result # <<>> =>
        \A now \in Clock :
            SameCountLinesAndWorkspace(inventory, RescannedAt(inventory, now))
                => hashInventory(RescannedAt(inventory, now)) = StoredHash

\* what the code computes: the hash follows the scan time and ignores the root
C21_HashFollowsScanTimeAndIgnoresWorkspace ==
    result # <<>> =>
        /\ \A now \in Clock :
              (hashInventory(RescannedAt(inventory, now)) = StoredHash)
                  <=> (now = inventory.metadata.timestamp)
        /\ hashInventory(MovedTo(inventory, "/elsewhere")) = StoredHash

\* a graph was returned whose inventory, rescanned unchanged at another time, hashes
\* differently
C21_RescanWitness ==
    /\ result # <<>>
    /\ \E now \in Clock :
          /\ now # inventory.metadata.timestamp
          /\ RescannedAt(inventory, now).files = inventory.files
          /\ hashInventory(RescannedAt(inventory, now)) # StoredHash

(***************************************************************************)
(* detectComponentType against its rule list read as an ordered table.     *)
(***************************************************************************)
LowerPath(file) == toLowerCase(file.path)

LowerFileName(file) == LastSegment(LowerPath(file))

ExportNameEndsWith(file, suffix) ==
    \E i \in 1..Len(file.exports) : EndsWith(file.exports[i].name, suffix)

ImportsAny(file, needles) ==
    \E i \in 1..Len(file.imports) : IncludesAny(toLowerCase(file.imports[i].source), needles)

\* the file is itself an API client or gateway
IsClientFile(file) == IncludesAny(LowerFileName(file), {"client.", "gateway."})

InRequestHandlingDirectory(file) ==
    IncludesAny(LowerPath(file), {"/controllers/", "/routes/", "/api/"})

HasControllerNaming(file) ==
    \/ IncludesAny(LowerFileName(file), {"controller.", "route."})
    \/ ExportNameEndsWith(file, "Controller")

\* the rule of each type, in the order of the priority list
ComponentRuleOrder ==
    <<"controller", "middleware", "service", "repository", "database", "component",
      "gateway", "message_queue", "cache", "external_system", "config">>

ComponentRuleMatches(type, file) ==
    CASE type = "controller" ->
            /\ ~IsClientFile(file)
            /\ InRequestHandlingDirectory(file) \/ HasControllerNaming(file)
      [] type = "middleware" ->
            \/ Includes(LowerPath(file), "/middleware/")
            \/ Includes(LowerFileName(file), "middleware.")
            \/ \E i \in 1..Len(file.exports) :
                  Includes(toLowerCase(file.exports[i].name), "middleware")
      [] type = "service" ->
            \/ Includes(LowerPath(file), "/services/")
            \/ IncludesAny(LowerFileName(file), {"service.", "manager."})
            \/ ExportNameEndsWith(file, "Service")
      [] type = "repository" ->
            \/ IncludesAny(LowerPath(file), {"/repositories/", "/data-access/", "/dao/"})
            \/ IncludesAny(LowerFileName(file), {"repository.", "dao."})
            \/ ExportNameEndsWith(file, "Repository")
            \/ ImportsAny(file, {"prisma", "typeorm", "mongoose"})
      [] type = "database" ->
            \/ IncludesAny(LowerPath(file), {"/models/", "/entities/", "/schemas/"})
            \/ IncludesAny(LowerFileName(file), {"model.", "entity.", "schema."})
            \/ ImportsAny(file, {"@prisma/client", "sequelize"})
      [] type = "component" ->
            \/ IncludesAny(LowerPath(file), {"/components/", "/views/", "/pages/"})
            \/ /\ EndsWith(LowerFileName(file), ".tsx") \/ EndsWith(LowerFileName(file), ".jsx")
               /\ \E i \in 1..Len(file.exports) : file.exports[i].kind \in {"function", "const"}
               /\ StemStartsUpperCase(LastSegment(file.path))
      [] type = "gateway" ->
            \/ IncludesAny(LowerPath(file), {"/gateways/", "/clients/"})
            \/ IsClientFile(file)
            \/ ~InRequestHandlingDirectory(file) /\ ImportsAny(file, {"axios", "@octokit"})
      [] type = "message_queue" ->
            \/ IncludesAny(LowerPath(file), {"/queue/", "/events/", "/jobs/"})
            \/ IncludesAny(LowerFileName(file), {"queue.", "worker."})
            \/ ImportsAny(file, {"bull", "kafka", "rabbitmq", "amqp"})
      [] type = "cache" ->
            \/ Includes(LowerPath(file), "/cache/")
            \/ Includes(LowerFileName(file), "cache.")
            \/ ImportsAny(file, {"redis", "memcached", "node-cache"})
      [] type = "external_system" ->
            IncludesAny(LowerPath(file), {"/third-party/", "/external/"})
      [] type = "config" ->
            \/ Includes(LowerPath(file), "/config/")
            \/ IncludesAny(LowerFileName(file), {"config.", "settings."})
            \/ LowerFileName(file) \in {"constants.ts", "env.ts"}

MatchingRules(file) ==
    {k \in 1..Len(ComponentRuleOrder) : ComponentRuleMatches(ComponentRuleOrder[k], file)}

FirstMatchingType(file) ==
    IF MatchingRules(file) = {} THEN "utility"
    ELSE ComponentRuleOrder[CHOOSE k \in MatchingRules(file) :
                                \A other \in MatchingRules(file) : k <= other]

\* C22: detectComponentType returns the type of the first rule, in the order
\* controller, middleware, service, repository, database, component, gateway,
\* message_queue, cache, external_system, config, that matches the file and
\* 'utility' when none does; a file in a request-handling directory or with
\* controller naming is 'controller' unless it is itself a client or gateway
\* file, and such a file is never 'controller'.
C22_FirstMatchingRuleWinsControllerBeforeGateway ==
    detected.componentType # "" =>
        /\ detected.componentType = FirstMatchingType(detFile)
        /\ IsClientFile(detFile) => detected.componentType # "controller"
        /\ (~IsClientFile(detFile)
            /\ (InRequestHandlingDirectory(detFile) \/ HasControllerNaming(detFile)))
               => detected.componentType = "controller"

\* a routes file that imports axios matches the controller and the gateway rule and
\* is classified controller
C22_Witness ==
    /\ detected.componentType = "controller"
    /\ detFile.path = "src/api/github.ts"
    /\ ImportsAny(detFile, {"axios"})
    /\ Cardinality(MatchingRules(detFile)) >= 1

\* a client file inside a request-handling directory is classified gateway
C22_ClientFileWitness ==
    /\ detFile.path = "src/api/client.ts"
    /\ detFile.exports = <<Export("UserController", "class")>>
    /\ detected.componentType = "gateway"

\* every type of the list, and the fallback, is returned for some file
C22_EveryTypeWitness ==
    /\ detected.componentType = "utility"
    /\ MatchingRules(detFile) = {}
    /\ \A type \in ComponentTypes : \E f \in ProbeFiles : detectComponentType(f) = type

(***************************************************************************)
(* detectRelationshipType against its rule list read as an ordered table.  *)
(* "*" stands for any component type.                                      *)
(***************************************************************************)
RelationshipRule(fromType, toType, relationship) ==
    [fromType |-> fromType, toType |-> toType, relationship |-> relationship]

RelationshipRuleOrder ==
    <<RelationshipRule("component", "component", "renders"),
      RelationshipRule("controller", "service", "calls"),
      RelationshipRule("service", "service", "calls"),
      RelationshipRule("service", "repository", "calls"),
      RelationshipRule("repository", "database", "reads_from or writes_to"),
      RelationshipRule("*", "message_queue", "publishes_to"),
      RelationshipRule("message_queue", "*", "subscribes_to"),
      RelationshipRule("gateway", "*", "calls"),
      RelationshipRule("*", "external_system", "calls")>>

RelationshipRuleMatches(rule, fromType, toType) ==
    /\ rule.fromType \in {"*", fromType}
    /\ rule.toType \in {"*", toType}

\* the count of the edge's first topDependency; 0 when the edge has none
EvidenceCount(edge) ==
    IF Len(edge.topDependencies) = 0 THEN 0 ELSE edge.topDependencies[1].count

FirstMatchingRelationship(edge) ==
    LET matching == {k \in 1..Len(RelationshipRuleOrder) :
                        RelationshipRuleMatches(RelationshipRuleOrder[k],
                                                edge.fromType, edge.toType)}
        first == CHOOSE k \in matching : \A other \in matching : k <= other
    IN  IF matching = {} THEN "uses"
        ELSE IF RelationshipRuleOrder[first].relationship # "reads_from or writes_to"
        THEN RelationshipRuleOrder[first].relationship
        ELSE IF EvidenceCount(edge) > writeCountThreshold THEN "writes_to"
        ELSE "reads_from"

BothEndpointsTyped(edge) == edge.fromType # "" /\ edge.toType # ""

\* C23: for every pair of endpoint component types and every evidence count,
\* detectRelationshipType returns the relationship of the first rule of its ordered
\* list that matches: controller -> service gives calls, repository -> database gives
\* writes_to when the count exceeds 5 and reads_from otherwise, and any typed source
\* -> message_queue gives publishes_to.
C23_FirstMatchingRelationshipRuleWins ==
    (detected.relationshipType # "" /\ BothEndpointsTyped(detEdge)) =>
        /\ detected.relationshipType = FirstMatchingRelationship(detEdge)
        /\ (detEdge.fromType = "controller" /\ detEdge.toType = "service")
              => detected.relationshipType = "calls"
        /\ (detEdge.fromType = "repository" /\ detEdge.toType = "database")
              => detected.relationshipType =
                     IF EvidenceCount(detEdge) > 5 THEN "writes_to" ELSE "reads_from"
        /\ detEdge.toType = "message_queue" => detected.relationshipType = "publishes_to"

\* an endpoint without a component type gives 'uses', whatever the other endpoint is
C23_UntypedEndpointGivesUses ==
    (detected.relationshipType # "" /\ ~BothEndpointsTyped(detEdge)) =>
        detected.relationshipType = "uses"

\* repository -> database with a count of exactly 5 reads, and a message queue
\* writing to a message queue publishes (the earlier of the two queue rules)
C23_Witness ==
    /\ detEdge.fromType = "repository"
    /\ detEdge.toType = "database"
    /\ EvidenceCount(detEdge) = writeCountThreshold
    /\ detected.relationshipType = "reads_from"
    /\ detectRelationshipType(ProbeCluster(1, "repository"), ProbeCluster(2, "database"),
                              <<TopDep(GhostPath, GhostPath, writeCountThreshold + 1)>>)
          = "writes_to"
    /\ detectRelationshipType(ProbeCluster(1, "message_queue"),
                              ProbeCluster(2, "message_queue"), <<>>) = "publishes_to"

(***************************************************************************)
(* detectProtocol: import evidence against component-type defaults.        *)
(***************************************************************************)
\* the lower-cased import sources of the topDependencies' source files that the
\* inventory holds
EvidenceImports(edge) ==
    UNION {{toLowerCase(EvidenceInventory.files[i].imports[j].source) :
               j \in 1..Len(EvidenceInventory.files[i].imports)} :
           i \in {i \in 1..Len(EvidenceInventory.files) :
                     \E k \in 1..Len(edge.topDependencies) :
                         edge.topDependencies[k].from = EvidenceInventory.files[i].path}}

\* RPC libraries and the protocol each one speaks
RpcLibraries ==
    [source : {"@grpc/grpc-js"}, protocol : {"gRPC"}]
    \cup [source : {"@apollo/client"}, protocol : {"GraphQL"}]
    \cup [source : {"socket.io"}, protocol : {"WebSocket"}]

ImportedRpcProtocols(edge) ==
    {lib.protocol : lib \in {l \in RpcLibraries : l.source \in EvidenceImports(edge)}}

\* the defaults as the claim lists them
ListedDefault(edge) ==
    IF edge.toType = "database" THEN "SQL"
    ELSE IF edge.toType = "cache" THEN "Redis"
    ELSE IF "controller" \in {edge.fromType, edge.toType} THEN "HTTP"
    ELSE "Internal"

\* C24: detectProtocol prefers import evidence over component-type defaults: an RPC
\* library imported by a source file of the edge's topDependencies gives that
\* protocol whatever the endpoint types are, and only without such evidence the
\* defaults apply: database gives SQL, cache gives Redis, a controller involved in
\* the edge gives HTTP, otherwise Internal.
C24_ImportEvidenceThenListedDefaults ==
    detected.protocol # "" =>
        IF ImportedRpcProtocols(detEdge) # {}
        THEN detected.protocol \in ImportedRpcProtocols(detEdge)
        ELSE detected.protocol = ListedDefault(detEdge)

\* evidence as the code looks for it: a substring of an import source, in this order
EvidenceProtocol(edge) ==
    LET some(needles) == \E imp \in EvidenceImports(edge) : IncludesAny(imp, needles)
    IN  IF some({"grpc"}) THEN "gRPC"
        ELSE IF some({"graphql", "apollo"}) THEN "GraphQL"
        ELSE IF some({"socket.io", "ws", "websocket"}) THEN "WebSocket"
        ELSE ""

\* the defaults of the code, in its order
TypeDefault(edge) ==
    IF edge.toType = "database" THEN "SQL"
    ELSE IF edge.toType = "cache" THEN "Redis"
    ELSE IF edge.toType = "message_queue" THEN "AMQP"
    ELSE IF edge.fromType = "controller" \/ edge.toType = "gateway" THEN "HTTP"
    ELSE IF edge.fromType = "gateway" \/ edge.toType = "external_system" THEN "REST"
    ELSE "Internal"

\* C24 as amended: import evidence (an import source of a topDependencies source
\* file of the inventory containing grpc, else graphql or apollo, else socket.io, ws
\* or websocket) gives gRPC, GraphQL or WebSocket whatever the endpoint types are;
\* only without it the defaults apply, in this order: target database SQL, target
\* cache Redis, target message_queue AMQP, source controller or target gateway
\* HTTP, source gateway or target external_system REST, otherwise Internal.
C24_ImportEvidenceThenTypeDefaults ==
    detected.protocol # "" =>
        /\ detected.protocol =
               IF EvidenceProtocol(detEdge) # "" THEN EvidenceProtocol(detEdge)
               ELSE TypeDefault(detEdge)
        /\ ImportedRpcProtocols(detEdge) # {}
              => detected.protocol \in ImportedRpcProtocols(detEdge)

\* an edge into a database whose second topDependency starts at a file importing
\* @grpc/grpc-js is gRPC, not SQL
C24_Witness ==
    /\ detEdge.toType = "database"
    /\ Len(detEdge.topDependencies) = 2
    /\ detEdge.topDependencies[1].from = PlainFile.path
    /\ detEdge.topDependencies[2].from = GrpcFile.path
    /\ detected.protocol = "gRPC"

\* an edge into a message queue without import evidence is AMQP, which the listed
\* defaults do not give
C24_UnlistedDefaultWitness ==
    /\ detEdge.toType = "message_queue"
    /\ ImportedRpcProtocols(detEdge) = {}
    /\ EvidenceProtocol(detEdge) = ""
    /\ detected.protocol = "AMQP"

(***************************************************************************)
(* generateInventory after its caller gave up.                             *)
(***************************************************************************)
\* C25: once the caller has abandoned generateInventory, the batch in flight may
\* finish but no further batch is started: a batch awaited after the abandonment is
\* the batch that was awaited when the caller abandoned.
C25_NoBatchStartsAfterAbandonment ==
    (abandoned # <<>> /\ invPc = "awaiting") => abandoned = <<"awaiting", cursor>>

\* the part that holds: the analyses in flight at the abandonment all settle and
\* their batch completes
C25_BatchInFlightFinishes ==
    (abandoned # <<>> /\ abandoned[1] = "awaiting" /\ invPc = "returned") =>
        BatchIndices(abandoned[2], batchSize, Len(scannedFiles)) \subseteq settled

\* abandoned while the first batch was awaited, and a later batch is in flight
C25_LaterBatchWitness ==
    /\ abandoned = <<"awaiting", 0>>
    /\ invPc = "awaiting"
    /\ cursor > 0
    /\ inFlight # {}

(***************************************************************************)
(* Identity and evidence in the returned graph.                            *)
(***************************************************************************)
ClustersWithId(g, id) == {i \in 1..Len(g.clusters) : g.clusters[i].id = id}

\* C26: in every returned ClusterGraph the cluster ids are pairwise distinct, so
\* every edge endpoint designates exactly one cluster.
C26_ClusterIdsArePairwiseDistinct ==
    result # <<>> =>
        LET g == result[1]
        IN  /\ \A i, j \in 1..Len(g.clusters) :
                  g.clusters[i].id = g.clusters[j].id => i = j
            /\ \A k \in 1..Len(g.clusterEdges) :
                  /\ Cardinality(ClustersWithId(g, g.clusterEdges[k].source)) = 1
                  /\ Cardinality(ClustersWithId(g, g.clusterEdges[k].target)) = 1

\* what the validation does ensure: every edge endpoint designates at least one
\* cluster and every id has the lowercase-with-hyphens form
C26_EdgeEndpointsDesignateSomeCluster ==
    result # <<>> =>
        LET g == result[1]
        IN  /\ \A i \in 1..Len(g.clusters) : MatchesIdPattern(g.clusters[i].id)
            /\ \A k \in 1..Len(g.clusterEdges) :
                  /\ ClustersWithId(g, g.clusterEdges[k].source) # {}
                  /\ ClustersWithId(g, g.clusterEdges[k].target) # {}

\* a graph is returned at the first attempt in which two clusters share an id that
\* an edge uses as its source
C26_SharedIdWitness ==
    /\ result # <<>>
    /\ errorLog = <<>>
    /\ \E k \in 1..Len(result[1].clusterEdges) :
          Cardinality(ClustersWithId(result[1], result[1].clusterEdges[k].source)) = 2

TopDependencyPaths(g) ==
    UNION {UNION {{g.clusterEdges[k].topDependencies[d].from,
                   g.clusterEdges[k].topDependencies[d].to} :
                     d \in 1..Len(g.clusterEdges[k].topDependencies)} :
           k \in 1..Len(g.clusterEdges)}

\* C27: in every returned ClusterGraph every topDependencies entry of every edge is
\* drawn from the inventory: its from and its to are paths of inventory files.
C27_TopDependenciesAreInventoryPaths ==
    result # <<>> => TopDependencyPaths(result[1]) \subseteq InventoryPaths(inventory)

\* a graph is returned at the first attempt with a topDependency that starts at a
\* path the inventory does not hold
C27_GhostEvidenceWitness ==
    /\ result # <<>>
    /\ errorLog = <<>>
    /\ GhostPath \in TopDependencyPaths(result[1])
    /\ GhostPath \notin InventoryPaths(inventory)

(***************************************************************************)
(* Completeness of the classification in the returned graph.               *)
(***************************************************************************)
\* C28: in every returned ClusterGraph every cluster has a componentType and a
\* technology record and every edge has a relationshipType, a protocol and a
\* description, supplied by the collaborator or filled in by the enrichment.
C28_EveryClusterAndEdgeIsClassified ==
    result # <<>> =>
        LET g == result[1]
        IN  /\ \A i \in 1..Len(g.clusters) :
                  /\ g.clusters[i].componentType \in ComponentTypes
                  /\ g.clusters[i].technology # NoTechnology
            /\ \A k \in 1..Len(g.clusterEdges) :
                  /\ g.clusterEdges[k].relationshipType # ""
                  /\ g.clusterEdges[k].protocol # ""
                  /\ g.clusterEdges[k].description # ""

\* a returned graph in which the collaborator classified cluster 3 and edge e2 and
\* the enrichment classified a cluster without key files and edge e1
C28_Witness ==
    /\ result # <<>>
    /\ AnsweredGraph.clusters[3].componentType # ""
    /\ AnsweredGraph.clusters[2].componentType = ""
    /\ AnsweredGraph.clusters[2].keyFiles = <<>>
    /\ result[1].clusters[2].componentType # ""
    /\ AnsweredGraph.clusterEdges[1].protocol = ""
    /\ result[1].clusterEdges[1].protocol # ""
    /\ AnsweredGraph.clusterEdges[2].description = result[1].clusterEdges[2].description

(***************************************************************************)
(* Termination of the batch loop for any batchSize.                        *)
(***************************************************************************)
\* C29: for every list of scanned files and every batchSize the batch loop
\* terminates, every scanned file is analysed exactly once and the call returns an
\* inventory or raises.  Termination is stated by the loop's measure: every
\* iteration moves `i` towards files.length; no file is handed to analyzeFile
\* twice; and when the loop is left every scanned file was analysed.
C29_BatchLoopTerminatesAnalysingEveryFileOnce ==
    [][/\ (invPc = "awaiting" /\ invPc' = "analyzing") => cursor' > cursor
       /\ (invPc = "analyzing" /\ invPc' = "awaiting") => inFlight' \cap settled = {}
       /\ invPc' = "returned" => settled' = 1..Len(scannedFiles)]_vars

\* the same for the batch sizes that are sizes: unset (default 50) or positive
C29_TerminatesForPositiveBatchSizes ==
    [][scanOptions.batchSize >= 0 =>
          /\ (invPc = "awaiting" /\ invPc' = "analyzing") => cursor' > cursor
          /\ (invPc = "analyzing" /\ invPc' = "awaiting") => inFlight' \cap settled = {}
          /\ invPc' = "returned" => settled' = 1..Len(scannedFiles)]_vars

\* with batchSize -1 the loop variable is negative after the first iteration, the
\* loop goes on, and the last scanned file was never analysed
C29_EndlessLoopWitness ==
    /\ scanOptions.batchSize = -1
    /\ Len(scannedFiles) = 2
    /\ invPc = "analyzing"
    /\ cursor = -MaxIdleRounds
    /\ settled = {1}
    /\ cursor < Len(scannedFiles)

(***************************************************************************)
(* Trace playback.                                                         *)
(***************************************************************************)
\* the number of steps of the loaded trace
TraceLength == executionTrace[1]

PlayingBack == executionTrace # <<>> /\ TraceLength >= 1

\* C30: while a trace of n >= 1 steps is loaded, under any sequence of play/pause,
\* step-forward, step-back, reset, back-to-home and timer events, currentStep stays
\* within 0..n-1; an auto-play tick at the last step leaves currentStep unchanged
\* and switches playing off; and auto-play advances at most n-1 times without the
\* user stepping in.
C30_PlaybackStaysInRangeAndAutoPlayStops ==
    [][/\ PlayingBack' =>
             /\ currentStepIndex' \in 0..(TraceLength' - 1)
             /\ advances' <= currentStepIndex'
             /\ advances' <= TraceLength' - 1
       /\ (PlayingBack /\ Tick /\ currentStepIndex = TraceLength - 1) =>
             /\ currentStepIndex' = currentStepIndex
             /\ ~isPlaying']_vars

\* auto-play ran from the first to the last step of a four-step trace and the tick
\* at the last step switched it off
C30_Witness ==
    /\ PlayingBack
    /\ TraceLength = MaxTraceLength
    /\ currentStepIndex = TraceLength - 1
    /\ advances = TraceLength - 1
    /\ ~isPlaying
    /\ screen.playing

\* a click handled with the step of the previous render: the screen still shows
\* step 0 while auto-play has moved on
C30_StaleRenderWitness ==
    /\ PlayingBack
    /\ screen.view = "trace"
    /\ screen.step = 0
    /\ currentStepIndex = 2
    /\ isPlaying

====
